---- MODULE Spec2Model ----
(***************************************************************************)
(* LACRIMOSA sequencer core: the ring cursor (cz-io/src/cursor.rs), the    *)
(* event atom (cz-core/src/lib.rs), the journal's index ring and blob      *)
(* region (cz-io/src/journal.rs) and the io_uring receive loop             *)
(* (cz-io/src/event_loop.rs).                                              *)
(*                                                                         *)
(* Memory is modelled at byte level, for the blob region (the kernel       *)
(* writes datagrams there and the loop reinterprets the first 32 bytes as  *)
(* a CausalEvent) and for the index ring (write_event_at copies the 32     *)
(* bytes of the struct, read_event_at reinterprets 32 bytes as a struct).  *)
(* A u32 checksum is kept as its four little-endian bytes, because CRC-32  *)
(* values exceed the model checker's integer range.                        *)
(***************************************************************************)
EXTENDS Integers, Sequences, FiniteSets, TLC

(***************************************************************************)
(* Sizes.  The program's sizes are scaled down; the header size is kept.   *)
(***************************************************************************)
\* CausalEvent::size_bytes(): 32 bytes, #[repr(C)].
size_bytes == 32

\* MAX_PACKET_SIZE (65535 in the source), scaled: a header plus one payload byte.
MAX_PACKET_SIZE == 33

\* PIPELINE_DEPTH (16 in the source), scaled.
PIPELINE_DEPTH == 2

\* INDEX_RING_CAPACITY (INDEX_RING_SIZE / 32 = 2^25 in the source), scaled.
INDEX_RING_CAPACITY == 3

\* Number of whole MAX_PACKET_SIZE slices of the blob region.
BlobSlices == 2

\* Number of completions the kernel posts in a run of the model.
MaxCompletions == 3

\* Largest capacity of a stand-alone cursor (SpecCursor).
MaxCapacity == 5

\* Largest lamport_ts of the atoms that are compared and sorted (SpecOrder).
MaxStamp == 1

\* INDEX_RING_SIZE: the bytes of the index ring.
INDEX_RING_SIZE == INDEX_RING_CAPACITY * size_bytes

\* usize::to_le_bytes() on the 64-bit targets io_uring runs on.
USIZE_BYTES == 8

\* journal.blob_storage().len()
BlobLen == BlobSlices * MAX_PACKET_SIZE

\* Option<T>: None is the empty tuple and Some(x) the one-element tuple.
None == << >>

Some(x) == << x >>

unwrap(o) == o[1]

Tags == 0 .. (PIPELINE_DEPTH - 1)

(***************************************************************************)
(* Little-endian integers, as the struct image holds them.                 *)
(***************************************************************************)
RECURSIVE ToLE(_, _)
ToLE(v, n) == IF n = 0 THEN << >> ELSE << v % 256 >> \o ToLE(v \div 256, n - 1)

RECURSIVE FromLE(_)
FromLE(bytes) ==
    IF bytes = << >> THEN 0 ELSE Head(bytes) + 256 * FromLE(Tail(bytes))

Zeros(n) == [i \in 1 .. n |-> 0]

(***************************************************************************)
(* crc32fast::Hasher: CRC-32 (reflected polynomial 0xEDB88320, initial     *)
(* value and final xor 0xFFFFFFFF), computed bit by bit.  A register is a  *)
(* function 1..32 -> {0,1}; index i holds bit i-1.                         *)
(***************************************************************************)
Poly == [i \in 1 .. 32 |->
            IF (i - 1) \in {5, 8, 9, 15, 19, 20, 21, 23, 24, 26, 27, 29, 30, 31}
            THEN 1 ELSE 0]

AllOnes == [i \in 1 .. 32 |-> 1]

\* SubSeq makes each register an explicit 32-tuple.
XorBits(a, b) == SubSeq([i \in 1 .. 32 |-> (a[i] + b[i]) % 2], 1, 32)

ShiftRight(a) == SubSeq([i \in 1 .. 32 |-> IF i < 32 THEN a[i + 1] ELSE 0], 1, 32)

ByteBits(b) == [i \in 1 .. 32 |-> IF i <= 8 THEN (b \div (2 ^ (i - 1))) % 2 ELSE 0]

RECURSIVE CrcRounds(_, _)
CrcRounds(reg, n) ==
    IF n = 0 THEN reg
    ELSE CrcRounds(IF reg[1] = 1 THEN XorBits(ShiftRight(reg), Poly)
                   ELSE ShiftRight(reg), n - 1)

RECURSIVE CrcUpdate(_, _)
CrcUpdate(reg, bytes) ==
    IF bytes = << >> THEN reg
    ELSE CrcUpdate(CrcRounds(XorBits(reg, ByteBits(Head(bytes))), 8), Tail(bytes))

BitsToLE(reg) ==
    [k \in 1 .. 4 |->
        reg[8 * (k - 1) + 1] + 2 * reg[8 * (k - 1) + 2] + 4 * reg[8 * (k - 1) + 3]
        + 8 * reg[8 * (k - 1) + 4] + 16 * reg[8 * (k - 1) + 5]
        + 32 * reg[8 * (k - 1) + 6] + 64 * reg[8 * (k - 1) + 7]
        + 128 * reg[8 * (k - 1) + 8]]

\* Hasher::new(); update(payload); finalize()  -- the u32 as 4 LE bytes.
crc32(payload) == BitsToLE(XorBits(CrcUpdate(AllOnes, payload), AllOnes))

(***************************************************************************)
(* The event atom.                                                         *)
(***************************************************************************)
\* CausalEvent::new with the flags left set.
CausalEvent_new_flagged(lamport_ts, node_id, stream_id, payload_offset, checksum) ==
    [lamport_ts |-> lamport_ts, node_id |-> node_id, stream_id |-> stream_id,
     flags |-> 1, payload_offset |-> payload_offset, checksum |-> checksum]

\* CausalEvent::new: flags = 0.
CausalEvent_new(lamport_ts, node_id, stream_id, payload_offset, checksum) ==
    [lamport_ts |-> lamport_ts, node_id |-> node_id, stream_id |-> stream_id,
     flags |-> 0, payload_offset |-> payload_offset, checksum |-> checksum]

\* The 32-byte C layout of the struct: the image a client puts on the wire.
EventBytes(e) ==
    ToLE(e.lamport_ts, 8) \o ToLE(e.node_id, 4) \o ToLE(e.stream_id, 2)
    \o ToLE(e.flags, 2) \o ToLE(e.payload_offset, 8) \o e.checksum \o Zeros(4)

\* An uninitialised byte of memory: it holds no byte value (0 .. 255) until a
\* read of it picks one.  Nothing in the model reads one.
Uninit == -1

\* from_raw_parts(event as *const u8, 32): the fields in C layout, then the 4
\* trailing padding bytes of the struct, which are never initialised.
StructImage(e) ==
    SubSeq(EventBytes(e), 1, size_bytes - 4) \o [i \in 1 .. 4 |-> Uninit]

\* std::ptr::read(packet_data.as_ptr() as *const CausalEvent)
ptr_read(bytes) ==
    [lamport_ts |-> FromLE(SubSeq(bytes, 1, 8)),
     node_id |-> FromLE(SubSeq(bytes, 9, 12)),
     stream_id |-> FromLE(SubSeq(bytes, 13, 14)),
     flags |-> FromLE(SubSeq(bytes, 15, 16)),
     payload_offset |-> FromLE(SubSeq(bytes, 17, 24)),
     checksum |-> SubSeq(bytes, 25, 28)]

\* The content of a never-written slot of a freshly created journal file.
ZeroEvent == ptr_read(Zeros(size_bytes))

\* cz-hub: the readers' empty-slot test.
is_empty_event(event) ==
    /\ event.lamport_ts = 0
    /\ event.node_id = 0
    /\ event.stream_id = 0
    /\ event.flags = 0
    /\ event.payload_offset = 0
    /\ event.checksum = Zeros(4)

\* The ordering key of Ord::cmp.
OrderingKey(e) == << e.lamport_ts, e.node_id, e.stream_id >>

\* Ord for tuples of unsigned integers: lexicographic.
RECURSIVE tuple_cmp(_, _)
tuple_cmp(x, y) ==
    IF x = << >> THEN "Equal"
    ELSE IF Head(x) < Head(y) THEN "Less"
    ELSE IF Head(x) > Head(y) THEN "Greater"
    ELSE tuple_cmp(Tail(x), Tail(y))

\* cmp with node_id compared before lamport_ts.
cmp_node_first(a, b) ==
    tuple_cmp(<< a.node_id, a.lamport_ts, a.stream_id >>,
              << b.node_id, b.lamport_ts, b.stream_id >>)

\* cmp with payload_offset added to the key.
cmp_with_payload(a, b) ==
    tuple_cmp(OrderingKey(a) \o << a.payload_offset >>,
              OrderingKey(b) \o << b.payload_offset >>)

\* Ord::cmp
cmp(a, b) == tuple_cmp(OrderingKey(a), OrderingKey(b))

\* PartialOrd: a <= b, through partial_cmp = Some(cmp).
le(a, b) == cmp(a, b) # "Greater"

\* PartialEq::eq
eq(a, b) == cmp(a, b) = "Equal"

\* events.sort(): the stable sort of a slice by Ord::cmp -- each element is
\* inserted after the elements that are not greater than it.
RECURSIVE insert_sorted(_, _)
insert_sorted(sorted, e) ==
    IF sorted = << >> THEN << e >>
    ELSE IF cmp(e, Head(sorted)) = "Less" THEN << e >> \o sorted
    ELSE << Head(sorted) >> \o insert_sorted(Tail(sorted), e)

RECURSIVE sort(_)
sort(events) ==
    IF events = << >> THEN << >>
    ELSE insert_sorted(sort(SubSeq(events, 1, Len(events) - 1)),
                       events[Len(events)])

(***************************************************************************)
(* The cursor.  A cursor is a record [head, tail, capacity].               *)
(***************************************************************************)
\* What is left of a call that panicked: no value.
Panic == [panic |-> TRUE]

\* Cursor::new asserting capacity >= 1.
Cursor_new_min1(capacity) ==
    IF capacity >= 1 THEN [head |-> 0, tail |-> 0, capacity |-> capacity]
    ELSE Panic

\* Cursor::new: assert!(capacity >= 2), then head = tail = 0.
Cursor_new(capacity) ==
    IF capacity >= 2 THEN [head |-> 0, tail |-> 0, capacity |-> capacity]
    ELSE Panic

\* next_pos without the wrap-around.
next_pos_unwrapped(c, pos) == pos + 1

next_pos(c, pos) == (pos + 1) % c.capacity

\* is_full comparing without the wrap-around.
is_full_unwrapped(c) == c.head + 1 = c.tail

is_full(c) == next_pos(c, c.head) = c.tail

is_empty(c) == c.head = c.tail

\* len without the wrapped branch.
len_unwrapped(c) == c.head - c.tail

len(c) == IF c.head >= c.tail THEN c.head - c.tail
          ELSE c.capacity - c.tail + c.head

\* advance_head without the fullness test.
advance_head_unchecked(c) ==
    [cursor |-> [c EXCEPT !.head = next_pos(c, c.head)], ret |-> Some(c.head)]

\* advance_head handing out the slot at tail.
advance_head_at_tail(c) ==
    IF is_full(c) THEN [cursor |-> c, ret |-> None]
    ELSE [cursor |-> [c EXCEPT !.head = next_pos(c, c.head)], ret |-> Some(c.tail)]

\* advance_head: the cursor afterwards and the returned Option<usize>.
advance_head(c) ==
    IF is_full(c) THEN [cursor |-> c, ret |-> None]
    ELSE [cursor |-> [c EXCEPT !.head = next_pos(c, c.head)], ret |-> Some(c.head)]

\* advance_tail without the emptiness test.
advance_tail_unchecked(c) ==
    [cursor |-> [c EXCEPT !.tail = next_pos(c, c.tail)], ret |-> Some(c.tail)]

\* advance_tail: the cursor afterwards and the returned Option<usize>.
advance_tail(c) ==
    IF is_empty(c) THEN [cursor |-> c, ret |-> None]
    ELSE [cursor |-> [c EXCEPT !.tail = next_pos(c, c.tail)], ret |-> Some(c.tail)]

(***************************************************************************)
(* The journal.                                                            *)
(***************************************************************************)
\* Journal::open(path, size): set_len(size), map the file, Ok(Self { mmap,
\* size, _file }).  The handle is a record [size]; the mapping has size bytes.
Journal_open(size) == Some([size |-> size])

\* The bytes of the mapping that lie in the index ring region.
IndexBytes(j) == IF j.size < INDEX_RING_SIZE THEN j.size ELSE INDEX_RING_SIZE

\* &self.mmap[offset .. offset + 32] is in bounds for the slot.
slot_in_mapping(j, slot) == (slot + 1) * size_bytes <= j.size

\* &mem[from .. to] as a sequence of bytes.
Bytes(b, from, to) == [i \in 1 .. (to - from) |-> b[from + i - 1]]

\* write_event_at with the slot index taken for the byte offset.
write_event_at_unscaled(ring, slot, event) ==
    LET offset == slot
        src == StructImage(event)
    IN  [o \in DOMAIN ring |->
            IF offset <= o /\ o < offset + size_bytes THEN src[o - offset + 1]
            ELSE ring[o]]

\* write_event_at: the struct's 32 bytes copied to mmap[offset .. offset + 32].
write_event_at(ring, slot, event) ==
    LET offset == slot * size_bytes
        src == StructImage(event)
    IN  [o \in DOMAIN ring |->
            IF offset <= o /\ o < offset + size_bytes THEN src[o - offset + 1]
            ELSE ring[o]]

\* read_event_at: mmap[offset .. offset + 32] reinterpreted as a struct.
read_event_at(ring, slot) ==
    LET offset == slot * size_bytes
    IN  ptr_read(Bytes(ring, offset, offset + size_bytes))

(***************************************************************************)
(* Datagrams the network delivers and errors the kernel reports.           *)
(***************************************************************************)
\* A client header with every field set, the overwritten ones included.
ClientHeader(checksum) ==
    [lamport_ts |-> 9, node_id |-> 7, stream_id |-> 2, flags |-> 1,
     payload_offset |-> 5, checksum |-> checksum]

\* 16 bytes: shorter than a header.
ShortDatagram == SubSeq(EventBytes(ClientHeader(Zeros(4))), 1, 16)

\* An all-zero header and no payload: the CRC-32 of no bytes is 0.
ZeroDatagram == EventBytes(ZeroEvent)

\* A header whose checksum is the CRC-32 of its one payload byte.
GoodDatagram == EventBytes(ClientHeader(crc32(<< 1 >>))) \o << 1 >>

\* A header whose checksum is not the CRC-32 of its payload.
BadDatagram == EventBytes(ClientHeader(Zeros(4))) \o << 1 >>

Datagrams == {ShortDatagram, ZeroDatagram, GoodDatagram, BadDatagram}

\* A negative cqe.result(): -EINTR.
ErrResults == {-4}

\* An atom whose fields all span more than one byte.
WideEvent ==
    [lamport_ts |-> 66051, node_id |-> 65793, stream_id |-> 513, flags |-> 257,
     payload_offset |-> 67305, checksum |-> << 239, 190, 173, 222 >>]

\* The atoms written to the journal on its own (SpecJournal).
JournalEvents == {ZeroEvent, ClientHeader(crc32(<< 1 >>)), WideEvent}

\* The atoms that are compared and sorted (SpecOrder): every ordering key over
\* small ranges, each with two settings of the fields outside the key.
NodeIds == {0, 1}

StreamIds == {0, 1}

KeyedEvent(lamport_ts, node_id, stream_id, other) ==
    [lamport_ts |-> lamport_ts, node_id |-> node_id, stream_id |-> stream_id,
     flags |-> other.flags, payload_offset |-> other.payload_offset,
     checksum |-> other.checksum]

OtherFields ==
    {[flags |-> 0, payload_offset |-> 0, checksum |-> Zeros(4)],
     [flags |-> 1, payload_offset |-> 999, checksum |-> << 173, 222, 0, 0 >>]}

OrderedEvents ==
    {KeyedEvent(t, n, s, o) :
        t \in 0 .. MaxStamp, n \in NodeIds, s \in StreamIds, o \in OtherFields}

\* The third atom of a comparison: its fields outside the key are immaterial.
PlainEvents == {e \in OrderedEvents : e.flags = 0}

(***************************************************************************)
(* State.                                                                  *)
(***************************************************************************)
VARIABLES
    cursor,             \* the Cursor passed to run
    index_ring,         \* journal: slot -> CausalEvent
    blob,               \* journal: blob byte offset -> byte
    next_blob_offset,   \* EventLoop.next_blob_offset
    in_flight_offsets,  \* run: tag -> blob offset
    sq,                 \* io_uring submission queue: entries pushed, not yet submitted
    kernel,             \* tag -> buffer offset of the receive the kernel holds, or None
    cq,                 \* io_uring completion queue
    pc,                 \* position of run: "start", "submit", "wait", "process"
    completed_slots,    \* run: the drained completions
    idx,                \* run: index i of the processing loop
    EVENTS_PROCESSED,
    BYTES_PROCESSED,
    LAMPORT_COUNTER,
    ipc,                \* EventLoop.ipc: "Some" or "None"
    ipc_out,            \* the messages broadcast, in order
    posted,             \* number of completions the kernel has posted
    packet,             \* tag -> the datagram of the tag's pending completion, or None
    dropped,            \* number of completions processed without a commit
    last,               \* the completion processed last and what became of it
    cur_last,           \* the cursor call made last (SpecCursor)
    tally,              \* what the cursor's callers have counted (SpecCursor)
    jr_last,            \* the journal access made last (SpecJournal)
    events,             \* the atoms handed to the comparisons (SpecOrder)
    verdict,            \* what the comparisons and the sort returned (SpecOrder)
    sq_depth,           \* entries of the io_uring submission queue
    journal,            \* what Journal::open returned
    cur_new,            \* the Cursor::new call that made the cursor
    frames,             \* submit_recv: recursive calls made by the call under way (SpecSubmit)
    clients,            \* IpcServer.clients: the streams in the list, in order (SpecIpc)
    mutex,              \* who holds the clients mutex: "free", "accept", "broadcast"
    incoming,           \* the streams the accept thread has taken and not pushed
    bcast,              \* the broadcast call under way: message and position, or None
    socket,             \* stream -> what its peer has been sent and whether it is open
    journals,           \* AppState.journals: the paths registered, in iteration order
    rwlock,             \* journal path -> holders of JournalState.journal (SpecReplay)
    replay,             \* api_replay request -> its parameters and position
    incidents,          \* AlertEngine.incidents (SpecAlerts)
    incident_history,   \* AlertEngine.incident_history
    inc_last,           \* the alert engine call made last and what it returned
    uuid,               \* number of Uuid::new_v4() values drawn
    api_keys,           \* AuthLayer.api_keys (SpecAuth)
    auth_last           \* the request auth_middleware saw last and what it did

vars == << cursor, index_ring, blob, next_blob_offset, in_flight_offsets, sq,
           kernel, cq, pc, completed_slots, idx, EVENTS_PROCESSED,
           BYTES_PROCESSED, LAMPORT_COUNTER, ipc, ipc_out, posted, packet,
           dropped, last, cur_last, tally, jr_last, events, verdict, sq_depth,
           journal, cur_new, frames, clients, mutex, incoming, bcast, socket,
           journals, rwlock, replay, incidents, incident_history, inc_last, uuid,
           api_keys, auth_last >>

\* What is fixed when a run starts.
setup_vars == << sq_depth, journal, cur_new >>

\* The IpcServer and its peers.
ipc_vars == << clients, mutex, incoming, bcast, socket >>

\* The hub's journal locks and replay requests.
replay_vars == << journals, rwlock, replay >>

\* The hub's alert engine.
alert_vars == << incidents, incident_history, inc_last >>

\* The hub's auth layer.
auth_vars == << api_keys, auth_last >>

\* What belongs to the components taken on their own.
service_vars == << frames, ipc_vars, replay_vars, alert_vars, uuid, auth_vars >>

\* What the loop never touches.
aux_vars == << cur_last, tally, jr_last, events, verdict, setup_vars,
               service_vars >>

\* The loop's state but the index ring.
io_vars == << blob, next_blob_offset, in_flight_offsets, sq, kernel, cq, pc,
              completed_slots, idx, EVENTS_PROCESSED, BYTES_PROCESSED,
              LAMPORT_COUNTER, ipc, ipc_out, posted, packet, dropped, last >>

loop_vars == << index_ring, blob, next_blob_offset, in_flight_offsets, sq,
                kernel, cq, pc, completed_slots, idx, EVENTS_PROCESSED,
                BYTES_PROCESSED, LAMPORT_COUNTER, ipc, ipc_out, posted, packet,
                dropped, last >>

NoLast == [kind |-> "none", tag |-> None, result |-> 0, slot |-> None,
           packet |-> None]

NoCall == [op |-> "none", ret |-> None,
           before |-> [head |-> 0, tail |-> 0, capacity |-> 0], len |-> 0,
           refill |-> FALSE, empty |-> TRUE, full |-> FALSE]

\* Nothing claimed, nothing released, the cursor empty.
NoTally == [held |-> 0, streak |-> Some(0), claims |-> 0, releases |-> 0,
            last_claimed |-> None]

NoAccess == [op |-> "none", slot |-> 0, event |-> ZeroEvent, wrote |-> None]

\* Cursor::new(capacity) and, when it returned, is_empty(), is_full() and
\* len() of the new cursor.
NewCall(capacity) ==
    LET c == Cursor_new(capacity)
    IN  IF c = Panic
        THEN [capacity |-> capacity, is_empty |-> FALSE, is_full |-> FALSE,
              len |-> 0]
        ELSE [capacity |-> capacity, is_empty |-> is_empty(c),
              is_full |-> is_full(c), len |-> len(c)]

\* A journal file of INDEX_RING_SIZE bytes and BlobSlices receive slices.
JournalSize == INDEX_RING_SIZE + BlobLen

InitLoop(ipc_server, size) ==
    /\ journal = Journal_open(size)
    /\ index_ring = [o \in 0 .. (IndexBytes(unwrap(Journal_open(size))) - 1) |-> 0]
    /\ blob = [o \in 0 .. (size - INDEX_RING_SIZE - 1) |-> 0]
    /\ next_blob_offset = 0
    /\ in_flight_offsets = [t \in Tags |-> 0]
    /\ sq = << >>
    /\ kernel = [t \in Tags |-> None]
    /\ cq = << >>
    /\ pc = "start"
    /\ completed_slots = << >>
    /\ idx = 0
    /\ EVENTS_PROCESSED = 0
    /\ BYTES_PROCESSED = 0
    /\ LAMPORT_COUNTER = 0
    /\ ipc = ipc_server
    /\ ipc_out = << >>
    /\ posted = 0
    /\ packet = [t \in Tags |-> None]
    /\ dropped = 0
    /\ last = NoLast
    /\ cur_last = NoCall
    /\ tally = NoTally
    /\ jr_last = NoAccess

NoEvents == events = << >> /\ verdict = None

\* No submit_recv call under way.
NoSubmit == frames = 0

\* No IpcServer.
NoIpc ==
    /\ clients = << >>
    /\ mutex = "free"
    /\ incoming = None
    /\ bcast = None
    /\ socket = << >>

\* No journal registered with the hub and no replay request.
NoReplay == journals = << >> /\ rwlock = << >> /\ replay = << >>

\* AlertEngine::new: no incident.
NoAlerts ==
    /\ incidents = << >>
    /\ incident_history = << >>
    /\ inc_last = None

\* AuthLayer::new: no key.
NoAuth == api_keys = << >> /\ auth_last = None

\* The components taken on their own are left out.
NoServices == NoSubmit /\ NoIpc /\ NoReplay /\ NoAlerts /\ NoAuth /\ uuid = 0

\* EventLoopConfig.ring_depth: a queue one entry short of the pipeline, and a
\* queue that holds the pipeline.
SqDepths == {PIPELINE_DEPTH - 1, PIPELINE_DEPTH}

\* cz-cli: Cursor::for_index_ring(), then EventLoop::new (whose IpcServer::start
\* may fail: .ok()) and run.
Init ==
    /\ cursor = Cursor_new(INDEX_RING_CAPACITY)
    /\ cur_new = NewCall(INDEX_RING_CAPACITY)
    /\ \E ipc_server \in {"Some", "None"} : InitLoop(ipc_server, JournalSize)
    /\ \E ring_depth \in SqDepths : sq_depth = ring_depth
    /\ NoEvents
    /\ NoServices

(***************************************************************************)
(* submit_recv.  The blob region holds at least one MAX_PACKET_SIZE slice  *)
(* here, so the wrap-around retry assigns offset 0.                        *)
(***************************************************************************)
\* The wrap taken one slice early.
AssignedOffset_early(nbo) == IF nbo + MAX_PACKET_SIZE >= BlobLen THEN 0 ELSE nbo

\* The offset submit_recv assigns: next_blob_offset, or 0 after the wrap.
AssignedOffset(nbo) == IF nbo + MAX_PACKET_SIZE > BlobLen THEN 0 ELSE nbo

\* submit_recv with the result of the push ignored.
submit_recv_unchecked(st, slot_idx) ==
    LET offset == AssignedOffset(st.next_blob_offset)
        pushed == Len(st.sq) < st.depth
    IN  [next_blob_offset |-> offset + MAX_PACKET_SIZE,
         in_flight_offsets |-> [st.in_flight_offsets EXCEPT ![slot_idx] = offset],
         sq |-> IF pushed
                THEN Append(st.sq, [user_data |-> slot_idx, buf |-> offset])
                ELSE st.sq,
         depth |-> st.depth,
         ok |-> TRUE]

\* submit_recv with the tag of the entry left at 0.
submit_recv_untagged(st, slot_idx) ==
    LET offset == AssignedOffset(st.next_blob_offset)
        pushed == Len(st.sq) < st.depth
    IN  [next_blob_offset |-> offset + MAX_PACKET_SIZE,
         in_flight_offsets |-> [st.in_flight_offsets EXCEPT ![slot_idx] = offset],
         sq |-> IF pushed
                THEN Append(st.sq, [user_data |-> 0, buf |-> offset])
                ELSE st.sq,
         depth |-> st.depth,
         ok |-> pushed]

\* submit_recv(fd, journal, slot_idx, in_flight_offsets) on the loop state st:
\* the offset is recorded and the rolling offset advanced, then the entry is
\* pushed; the push fails when the submission queue is full, and ok is
\* whether submit_recv returned Ok.
submit_recv(st, slot_idx) ==
    LET offset == AssignedOffset(st.next_blob_offset)
        pushed == Len(st.sq) < st.depth
    IN  [next_blob_offset |-> offset + MAX_PACKET_SIZE,
         in_flight_offsets |-> [st.in_flight_offsets EXCEPT ![slot_idx] = offset],
         sq |-> IF pushed
                THEN Append(st.sq, [user_data |-> slot_idx, buf |-> offset])
                ELSE st.sq,
         depth |-> st.depth,
         ok |-> pushed]

\* for i in 0..PIPELINE_DEPTH { submit_recv(..., i, ...)? }
RECURSIVE FillPipeline(_, _)
FillPipeline(st, t) ==
    IF t = PIPELINE_DEPTH \/ ~st.ok THEN st
    ELSE FillPipeline(submit_recv(st, t), t + 1)

SubmitState ==
    [next_blob_offset |-> next_blob_offset,
     in_flight_offsets |-> in_flight_offsets, sq |-> sq, depth |-> sq_depth,
     ok |-> TRUE]

\* run: the initial submission that fills the pipeline.
InitialSubmission ==
    /\ pc = "start"
    /\ LET st == FillPipeline(SubmitState, 0)
       IN  /\ next_blob_offset' = st.next_blob_offset
           /\ in_flight_offsets' = st.in_flight_offsets
           /\ sq' = st.sq
           /\ pc' = IF st.ok THEN "submit" ELSE "error"
    /\ UNCHANGED << cursor, index_ring, blob, kernel, cq, completed_slots, idx,
                    EVENTS_PROCESSED, BYTES_PROCESSED, LAMPORT_COUNTER, ipc,
                    ipc_out, posted, packet, dropped, last, aux_vars >>

\* submit_and_wait(1), first half: the pushed entries reach the kernel.
SubmitAndWait ==
    /\ pc = "submit"
    /\ kernel' = [t \in Tags |->
                    IF \E k \in 1 .. Len(sq) : sq[k].user_data = t
                    THEN Some(sq[CHOOSE k \in 1 .. Len(sq) : sq[k].user_data = t].buf)
                    ELSE kernel[t]]
    /\ sq' = << >>
    /\ pc' = "wait"
    /\ UNCHANGED << cursor, index_ring, blob, next_blob_offset,
                    in_flight_offsets, cq, completed_slots, idx,
                    EVENTS_PROCESSED, BYTES_PROCESSED, LAMPORT_COUNTER, ipc,
                    ipc_out, posted, packet, dropped, last, aux_vars >>

\* submit_and_wait(1) returns with a completion ready; the loop drains the queue.
DrainCompletions ==
    /\ pc = "wait"
    /\ cq # << >>
    /\ completed_slots' = SubSeq(cq, 1, IF Len(cq) < PIPELINE_DEPTH THEN Len(cq)
                                        ELSE PIPELINE_DEPTH)
    /\ cq' = << >>
    /\ idx' = 0
    /\ pc' = "process"
    /\ UNCHANGED << cursor, index_ring, blob, next_blob_offset,
                    in_flight_offsets, sq, kernel, EVENTS_PROCESSED,
                    BYTES_PROCESSED, LAMPORT_COUNTER, ipc, ipc_out, posted,
                    packet, dropped, last, aux_vars >>

(***************************************************************************)
(* The kernel: it completes any receive it holds, in any order.            *)
(***************************************************************************)
\* memcpy of a datagram into the receive's buffer.
KernelWrite(b, buf, d) ==
    [o \in DOMAIN b |-> IF buf <= o /\ o < buf + Len(d) THEN d[o - buf + 1] ELSE b[o]]

KernelRecv(t, d) ==
    /\ kernel[t] # None
    /\ posted < MaxCompletions
    /\ blob' = KernelWrite(blob, unwrap(kernel[t]), d)
    /\ cq' = Append(cq, [user_data |-> t, result |-> Len(d)])
    /\ kernel' = [kernel EXCEPT ![t] = None]
    /\ packet' = [packet EXCEPT ![t] = Some(d)]
    /\ posted' = posted + 1
    /\ UNCHANGED << cursor, index_ring, next_blob_offset, in_flight_offsets, sq,
                    pc, completed_slots, idx, EVENTS_PROCESSED, BYTES_PROCESSED,
                    LAMPORT_COUNTER, ipc, ipc_out, dropped, last, aux_vars >>

KernelError(t, e) ==
    /\ kernel[t] # None
    /\ posted < MaxCompletions
    /\ cq' = Append(cq, [user_data |-> t, result |-> e])
    /\ kernel' = [kernel EXCEPT ![t] = None]
    /\ packet' = [packet EXCEPT ![t] = None]
    /\ posted' = posted + 1
    /\ UNCHANGED << cursor, index_ring, blob, next_blob_offset,
                    in_flight_offsets, sq, pc, completed_slots, idx,
                    EVENTS_PROCESSED, BYTES_PROCESSED, LAMPORT_COUNTER, ipc,
                    ipc_out, dropped, last, aux_vars >>

(***************************************************************************)
(* run: one iteration of the "process and re-submit" loop.                 *)
(***************************************************************************)
\* A load in place of the fetch_add: the counter is read and not advanced.
fetch_add_load(counter, n) == [old |-> counter, new |-> counter]

\* AtomicU64::fetch_add: the value before and the value after.
fetch_add(counter, n) == [old |-> counter, new |-> counter + n]

\* bytes_received >= CausalEvent::size_bytes()
size_ok(bytes_received) == bytes_received >= size_bytes

\* The checksum comparison left out.
checksum_ok_skipped(computed, event) == TRUE

\* computed == event.checksum
checksum_ok(computed, event) == computed = event.checksum

\* The wake sent with slot 0 whatever the slot.
broadcast_slot0(out, ring_slot) == Append(out, ToLE(0, USIZE_BYTES))

\* ipc.broadcast(&ring_slot.to_le_bytes())
broadcast(out, ring_slot) == Append(out, ToLE(ring_slot, USIZE_BYTES))

\* The bytes an observer's socket delivers: the messages written, end to end.
RECURSIVE Stream(_)
Stream(out) == IF out = << >> THEN << >> ELSE Head(out) \o Stream(Tail(out))

\* cz-hub ipc_listener: read_exact into a [u8; 4] and u32::from_le_bytes,
\* while 4 bytes are there.
RECURSIVE read_frames(_)
read_frames(stream) ==
    IF Len(stream) < 4 THEN << >>
    ELSE << FromLE(SubSeq(stream, 1, 4)) >>
         \o read_frames(SubSeq(stream, 5, Len(stream)))

Process ==
    /\ pc = "process"
    /\ LET slot_idx == completed_slots[idx + 1].user_data
           result == completed_slots[idx + 1].result
           bytes_received == result
           offset == in_flight_offsets[slot_idx]
           packet_data == Bytes(blob, offset, offset + bytes_received)
           event == ptr_read(packet_data)
           payload == SubSeq(packet_data, size_bytes + 1, bytes_received)
           computed == crc32(payload)
           sized == result >= 0 /\ size_ok(bytes_received)
           validated == sized /\ checksum_ok(computed, event)
           ts == fetch_add(LAMPORT_COUNTER, 1)
           sequenced_event ==
               CausalEvent_new(ts.old, event.node_id, event.stream_id, offset,
                               event.checksum)
           claimed == advance_head(cursor)
           committed == validated /\ claimed.ret # None
           resubmitted == submit_recv(SubmitState, slot_idx)
       IN  /\ LAMPORT_COUNTER' = IF validated THEN ts.new ELSE LAMPORT_COUNTER
           /\ cursor' = IF validated THEN claimed.cursor ELSE cursor
           /\ index_ring' =
                 IF committed
                 THEN write_event_at(index_ring, unwrap(claimed.ret), sequenced_event)
                 ELSE index_ring
           /\ EVENTS_PROCESSED' =
                 IF committed THEN fetch_add(EVENTS_PROCESSED, 1).new
                 ELSE EVENTS_PROCESSED
           /\ BYTES_PROCESSED' =
                 IF committed THEN fetch_add(BYTES_PROCESSED, bytes_received).new
                 ELSE BYTES_PROCESSED
           /\ ipc_out' =
                 IF committed /\ ipc # "None" THEN broadcast(ipc_out, unwrap(claimed.ret))
                 ELSE ipc_out
           /\ next_blob_offset' = resubmitted.next_blob_offset
           /\ in_flight_offsets' = resubmitted.in_flight_offsets
           /\ sq' = resubmitted.sq
           /\ dropped' = IF committed THEN dropped ELSE dropped + 1
           /\ last' = [kind |-> IF result < 0 THEN "error"
                                ELSE IF ~sized THEN "short"
                                ELSE IF ~validated THEN "checksum"
                                ELSE IF ~committed THEN "full"
                                ELSE "commit",
                       tag |-> slot_idx,
                       result |-> result,
                       slot |-> IF committed THEN claimed.ret ELSE None,
                       packet |-> packet[slot_idx]]
           /\ packet' = [packet EXCEPT ![slot_idx] = None]
           /\ pc' = IF ~resubmitted.ok THEN "error"
                    ELSE IF idx + 1 = Len(completed_slots) THEN "submit"
                    ELSE "process"
    /\ idx' = idx + 1
    /\ UNCHANGED << blob, kernel, cq, completed_slots, ipc, posted, aux_vars >>

Next ==
    \/ InitialSubmission
    \/ SubmitAndWait
    \/ DrainCompletions
    \/ Process
    \/ \E t \in Tags, d \in Datagrams : KernelRecv(t, d)
    \/ \E t \in Tags, e \in ErrResults : KernelError(t, e)

Spec == Init /\ [][Next]_vars

(***************************************************************************)
(* A cursor on its own: any sequence of advance_head / advance_tail calls  *)
(* on a cursor created by Cursor::new(capacity), capacity >= 2.            *)
(* The callers keep a tally of what the calls returned: how many slots they *)
(* hold (claimed and not released), how many advance_head calls they have  *)
(* made in a row since the cursor was empty, how many claims and releases  *)
(* succeeded (counted modulo the capacity), and the slot claimed last.     *)
(* Each call is recorded with the cursor before it, what it returned, the  *)
(* len(), is_empty() and is_full() after it, and whether it is an          *)
(* advance_head that follows the release of a slot of a full ring.         *)
(***************************************************************************)
InitCursor ==
    /\ \E capacity \in 0 .. MaxCapacity :
          cursor = Cursor_new(capacity) /\ cur_new = NewCall(capacity)
    /\ InitLoop("None", JournalSize)
    /\ sq_depth = PIPELINE_DEPTH
    /\ NoEvents
    /\ NoServices

\* The tally after an advance_head call that returned ret.
TallyHead(t, ret, capacity) ==
    [held |-> IF ret # None THEN t.held + 1 ELSE t.held,
     streak |-> IF t.streak = None THEN None
                ELSE IF unwrap(t.streak) < capacity THEN Some(unwrap(t.streak) + 1)
                ELSE t.streak,
     claims |-> IF ret # None THEN (t.claims + 1) % capacity ELSE t.claims,
     releases |-> t.releases,
     last_claimed |-> IF ret # None THEN ret ELSE t.last_claimed]

\* The tally after an advance_tail call that returned ret and left the cursor
\* empty or not.
TallyTail(t, ret, capacity, empty) ==
    [held |-> IF ret # None THEN t.held - 1 ELSE t.held,
     streak |-> IF empty THEN Some(0) ELSE None,
     claims |-> t.claims,
     releases |-> IF ret # None THEN (t.releases + 1) % capacity ELSE t.releases,
     last_claimed |-> t.last_claimed]

AdvanceHead ==
    /\ cursor # Panic
    /\ cursor' = advance_head(cursor).cursor
    /\ cur_last' = [op |-> "advance_head", ret |-> advance_head(cursor).ret,
                    before |-> cursor, len |-> len(advance_head(cursor).cursor),
                    refill |-> /\ cur_last.op = "advance_tail"
                               /\ cur_last.ret # None
                               /\ len(cur_last.before) = cursor.capacity - 1,
                    empty |-> is_empty(advance_head(cursor).cursor),
                    full |-> is_full(advance_head(cursor).cursor)]
    /\ tally' = TallyHead(tally, advance_head(cursor).ret, cursor.capacity)
    /\ UNCHANGED << loop_vars, jr_last, events, verdict, setup_vars,
                    service_vars >>

AdvanceTail ==
    /\ cursor # Panic
    /\ cursor' = advance_tail(cursor).cursor
    /\ cur_last' = [op |-> "advance_tail", ret |-> advance_tail(cursor).ret,
                    before |-> cursor, len |-> len(advance_tail(cursor).cursor),
                    refill |-> FALSE,
                    empty |-> is_empty(advance_tail(cursor).cursor),
                    full |-> is_full(advance_tail(cursor).cursor)]
    /\ tally' = TallyTail(tally, advance_tail(cursor).ret, cursor.capacity,
                          is_empty(advance_tail(cursor).cursor))
    /\ UNCHANGED << loop_vars, jr_last, events, verdict, setup_vars,
                    service_vars >>

NextCursor == AdvanceHead \/ AdvanceTail

SpecCursor == InitCursor /\ [][NextCursor]_vars

(***************************************************************************)
(* A journal on its own: any sequence of write_event_at / read_event_at    *)
(* calls with slot < INDEX_RING_CAPACITY on a freshly created file, of a   *)
(* size that holds the index ring or of a size one slot short of it.  An   *)
(* access to a slot beyond the mapping panics on the slice bounds check.   *)
(***************************************************************************)
JournalSizes == {INDEX_RING_SIZE - size_bytes, JournalSize}

InitJournal ==
    /\ cursor = Cursor_new(INDEX_RING_CAPACITY)
    /\ cur_new = NewCall(INDEX_RING_CAPACITY)
    /\ \E size \in JournalSizes : InitLoop("None", size)
    /\ sq_depth = PIPELINE_DEPTH
    /\ NoEvents
    /\ NoServices

WriteEventAt(slot, event) ==
    /\ jr_last.op # "panic"
    /\ slot_in_mapping(unwrap(journal), slot)
    /\ index_ring' = write_event_at(index_ring, slot, event)
    /\ jr_last' = [op |-> "write", slot |-> slot, event |-> event, wrote |-> None]
    /\ UNCHANGED << cursor, io_vars, cur_last, tally, events, verdict,
                    setup_vars, service_vars >>

\* The read records the atom it returned and, when the call before it was a
\* write to the same slot, the atom that was written.
ReadEventAt(slot) ==
    /\ jr_last.op # "panic"
    /\ slot_in_mapping(unwrap(journal), slot)
    /\ jr_last' = [op |-> "read", slot |-> slot,
                   event |-> read_event_at(index_ring, slot),
                   wrote |-> IF jr_last.op = "write" /\ jr_last.slot = slot
                             THEN Some(jr_last.event) ELSE None]
    /\ UNCHANGED << cursor, loop_vars, cur_last, tally, events, verdict,
                    setup_vars, service_vars >>

\* write_event_at or read_event_at of a slot that ends beyond the mapping.
AccessPanics(slot) ==
    /\ jr_last.op # "panic"
    /\ ~slot_in_mapping(unwrap(journal), slot)
    /\ jr_last' = [op |-> "panic", slot |-> slot, event |-> ZeroEvent,
                   wrote |-> None]
    /\ UNCHANGED << cursor, loop_vars, cur_last, tally, events, verdict,
                    setup_vars, service_vars >>

NextJournal ==
    \/ \E slot \in 0 .. (INDEX_RING_CAPACITY - 1) : AccessPanics(slot)
    \/ \E slot \in 0 .. (INDEX_RING_CAPACITY - 1), event \in JournalEvents :
          WriteEventAt(slot, event)
    \/ \E slot \in 0 .. (INDEX_RING_CAPACITY - 1) : ReadEventAt(slot)

SpecJournal == InitJournal /\ [][NextJournal]_vars

(***************************************************************************)
(* The atom order on its own: three atoms are drawn, compared with each    *)
(* other and sorted.                                                       *)
(***************************************************************************)
InitOrder ==
    /\ cursor = Cursor_new(INDEX_RING_CAPACITY)
    /\ cur_new = NewCall(INDEX_RING_CAPACITY)
    /\ InitLoop("None", JournalSize)
    /\ sq_depth = PIPELINE_DEPTH
    /\ events \in {<< a, b, c >> :
                       a \in OrderedEvents, b \in OrderedEvents, c \in PlainEvents}
    /\ verdict = None
    /\ NoServices

\* a.cmp(&b), a <= b, a == b for the atoms drawn, as cmp[i][j], le[i][j],
\* eq[i][j].
Compare ==
    /\ verdict = None
    /\ verdict' =
          Some([cmp |-> [i \in 1 .. 3 |-> [j \in 1 .. 3 |-> cmp(events[i], events[j])]],
                le |-> [i \in 1 .. 3 |-> [j \in 1 .. 3 |-> le(events[i], events[j])]],
                eq |-> [i \in 1 .. 3 |-> [j \in 1 .. 3 |-> eq(events[i], events[j])]],
                sorted |-> None])
    /\ UNCHANGED << cursor, loop_vars, cur_last, tally, jr_last, events,
                    setup_vars, service_vars >>

\* events.sort()
Sort ==
    /\ verdict # None
    /\ unwrap(verdict).sorted = None
    /\ verdict' = Some([unwrap(verdict) EXCEPT !.sorted = Some(sort(events))])
    /\ UNCHANGED << cursor, loop_vars, cur_last, tally, jr_last, events,
                    setup_vars, service_vars >>

NextOrder == Compare \/ Sort

SpecOrder == InitOrder /\ [][NextOrder]_vars

(***************************************************************************)
(* submit_recv on its own, one call frame at a time, for a journal of any  *)
(* size from INDEX_RING_SIZE up: a frame that finds no room for a packet   *)
(* after next_blob_offset sets it to 0 and calls submit_recv again; a      *)
(* frame that finds room records the offset, advances next_blob_offset and *)
(* pushes the receive, which the kernel takes at once, and the call        *)
(* returns.  frames counts the calls a call has made to itself; the model  *)
(* follows it up to MaxFrames.                                             *)
(***************************************************************************)
MaxFrames == 3

\* journal.blob_storage_mut().len()
blob_len(j) == j.size - INDEX_RING_SIZE

\* offset + MAX_PACKET_SIZE > blob.len()
wraps(offset, blob_length) == offset + MAX_PACKET_SIZE > blob_length

SubmitSizes == INDEX_RING_SIZE .. JournalSize

\* Everything but the component under study, at rest.
Idle ==
    /\ cursor = Cursor_new(INDEX_RING_CAPACITY)
    /\ cur_new = NewCall(INDEX_RING_CAPACITY)
    /\ sq_depth = PIPELINE_DEPTH
    /\ NoEvents

InitSubmit ==
    /\ Idle
    /\ \E size \in SubmitSizes : InitLoop("None", size)
    /\ NoServices

SubmitRecvWraps ==
    /\ frames < MaxFrames
    /\ wraps(next_blob_offset, blob_len(unwrap(journal)))
    /\ next_blob_offset' = 0
    /\ frames' = frames + 1
    /\ UNCHANGED << cursor, index_ring, blob, in_flight_offsets, sq, kernel, cq,
                    pc, completed_slots, idx, EVENTS_PROCESSED, BYTES_PROCESSED,
                    LAMPORT_COUNTER, ipc, ipc_out, posted, packet, dropped, last,
                    cur_last, tally, jr_last, events, verdict, setup_vars,
                    ipc_vars, replay_vars, alert_vars, uuid, auth_vars >>

SubmitRecvPushes(slot_idx) ==
    /\ ~wraps(next_blob_offset, blob_len(unwrap(journal)))
    /\ in_flight_offsets' = [in_flight_offsets EXCEPT ![slot_idx] = next_blob_offset]
    /\ next_blob_offset' = next_blob_offset + MAX_PACKET_SIZE
    /\ frames' = 0
    /\ UNCHANGED << cursor, index_ring, blob, sq, kernel, cq, pc,
                    completed_slots, idx, EVENTS_PROCESSED, BYTES_PROCESSED,
                    LAMPORT_COUNTER, ipc, ipc_out, posted, packet, dropped, last,
                    cur_last, tally, jr_last, events, verdict, setup_vars,
                    ipc_vars, replay_vars, alert_vars, uuid, auth_vars >>

NextSubmit ==
    \/ SubmitRecvWraps
    \/ \E slot_idx \in Tags : SubmitRecvPushes(slot_idx)

SpecSubmit == InitSubmit /\ [][NextSubmit]_vars

(***************************************************************************)
(* The IpcServer on its own.  The accept thread takes one connection at a  *)
(* time from the listener, locks the clients mutex and pushes the stream.  *)
(* broadcast locks the mutex, writes the message to every stream of the    *)
(* list in order, keeping the streams whose write_all returned Ok, and     *)
(* unlocks.  The streams are nonblocking: write_all returns Ok when every  *)
(* byte was taken, and an error after a part of the message (or none of    *)
(* it) was taken when the peer's buffer is full or the peer is gone; which *)
(* of these happens is the peer's doing.  A stream that leaves the list is *)
(* dropped, which closes it.  The messages are the ones the loop sends:    *)
(* slots 0, 1, ... in order.                                               *)
(***************************************************************************)
MaxClients == 2

MaxBroadcasts == 2

Streams == 1 .. MaxClients

\* The number of bytes taken by a write_all that failed.
ShortWrites == {0, 3}

\* client.write_all(msg): whether it returned Ok, and the bytes the peer got.
WriteOutcomes(msg) ==
    {[ok |-> TRUE, sent |-> msg]}
    \cup {[ok |-> FALSE, sent |-> SubSeq(msg, 1, k)] : k \in ShortWrites}

\* retain_mut with every stream kept.
retain_all(ok) == TRUE

\* The predicate of retain_mut: client.write_all(msg).is_ok()
retain(ok) == ok

\* A stream nobody has connected.
NoStream == [state |-> "none", rcvd |-> << >>, failed |-> FALSE, joined |-> 0]

\* Everything of the loop but the messages it broadcasts.
quiet_vars == << cursor, index_ring, blob, next_blob_offset, in_flight_offsets,
                 sq, kernel, cq, pc, completed_slots, idx, EVENTS_PROCESSED,
                 BYTES_PROCESSED, LAMPORT_COUNTER, ipc, posted, packet, dropped,
                 last, cur_last, tally, jr_last, events, verdict, setup_vars,
                 frames, replay_vars, alert_vars, uuid, auth_vars >>

InitIpc ==
    /\ Idle
    /\ InitLoop("Some", JournalSize)
    /\ clients = << >>
    /\ mutex = "free"
    /\ incoming = None
    /\ bcast = None
    /\ socket = [c \in Streams |-> NoStream]
    /\ NoSubmit /\ NoReplay /\ NoAlerts /\ NoAuth /\ uuid = 0

\* listener.incoming() yields a stream; set_nonblocking(true).
Accept(c) ==
    /\ incoming = None
    /\ socket[c].state = "none"
    /\ incoming' = Some(c)
    /\ socket' = [socket EXCEPT ![c].state = "open"]
    /\ UNCHANGED << clients, mutex, bcast, ipc_out, quiet_vars >>

\* clients_clone.lock().unwrap()
AcceptLock ==
    /\ incoming # None
    /\ mutex = "free"
    /\ mutex' = "accept"
    /\ UNCHANGED << clients, incoming, bcast, socket, ipc_out, quiet_vars >>

\* lock.push(s), and the guard dropped at the end of the block.
AcceptPush ==
    /\ mutex = "accept"
    /\ clients' = Append(clients, unwrap(incoming))
    /\ socket' = [socket EXCEPT ![unwrap(incoming)].joined = Len(ipc_out)]
    /\ incoming' = None
    /\ mutex' = "free"
    /\ UNCHANGED << bcast, ipc_out, quiet_vars >>

\* ipc.broadcast(&ring_slot.to_le_bytes()): self.clients.lock().unwrap()
BroadcastLock ==
    /\ bcast = None
    /\ mutex = "free"
    /\ Len(ipc_out) < MaxBroadcasts
    /\ mutex' = "broadcast"
    /\ ipc_out' = broadcast(ipc_out, Len(ipc_out) % INDEX_RING_CAPACITY)
    /\ bcast' = Some([msg |-> ipc_out'[Len(ipc_out')], i |-> 1, kept |-> << >>])
    /\ UNCHANGED << clients, incoming, socket, quiet_vars >>

\* retain_mut visits the next stream of the list: client.write_all(msg).
BroadcastWrite ==
    /\ bcast # None
    /\ unwrap(bcast).i <= Len(clients)
    /\ LET b == unwrap(bcast)
           c == clients[b.i]
       IN  \E w \in WriteOutcomes(b.msg) :
              /\ socket' = [socket EXCEPT
                                ![c].rcvd = IF w.sent = << >> THEN @
                                            ELSE Append(@, w.sent),
                                ![c].failed = ~w.ok]
              /\ bcast' = Some([b EXCEPT !.i = @ + 1,
                                         !.kept = IF retain(w.ok)
                                                  THEN Append(@, c) ELSE @])
    /\ UNCHANGED << clients, mutex, incoming, ipc_out, quiet_vars >>

\* retain_mut is done: the list holds the streams kept, the others are
\* dropped, and the guard is dropped.
BroadcastUnlock ==
    /\ bcast # None
    /\ unwrap(bcast).i > Len(clients)
    /\ LET kept == unwrap(bcast).kept
           kept_set == {kept[k] : k \in 1 .. Len(kept)}
           listed == {clients[k] : k \in 1 .. Len(clients)}
       IN  /\ clients' = kept
           /\ socket' = [c \in Streams |->
                            IF c \in listed \ kept_set
                            THEN [socket[c] EXCEPT !.state = "dropped"]
                            ELSE socket[c]]
    /\ mutex' = "free"
    /\ bcast' = None
    /\ UNCHANGED << incoming, ipc_out, quiet_vars >>

NextIpc ==
    \/ \E c \in Streams : Accept(c)
    \/ AcceptLock
    \/ AcceptPush
    \/ BroadcastLock
    \/ BroadcastWrite
    \/ BroadcastUnlock

SpecIpc == InitIpc /\ [][NextIpc]_vars

(***************************************************************************)
(* The hub's api_replay handler and the journal locks.  The hub registers  *)
(* its journals at startup and never changes the map.  Each JournalState   *)
(* holds a tokio RwLock over its journal: a read guard is granted while no *)
(* write guard is held, a write guard while no guard at all is held, and a *)
(* task awaiting a guard stays suspended until it is granted.  A request   *)
(* resolves source and target, takes the read guard of the source journal, *)
(* then the write guard of the target journal, copies the slots and        *)
(* responds, dropping its guards.  The copy (a bounded for loop over the   *)
(* slots) and the target cursor's lock, which no handler holds across an   *)
(* await of another lock of the cursor, are part of the last step.         *)
(***************************************************************************)
MaxRequests == 2

Requests == 1 .. MaxRequests

Paths == {"a", "b"}

\* The maps the hub may have built at startup, as the order values() yields.
JournalMaps == {<< "a" >>, << "a", "b" >>}

\* ReplayParams.journal / target_journal: omitted, a registered path, or a
\* path the hub has not opened.
JournalParams == {None} \cup {Some(q) : q \in Paths \cup {"x"}}

\* AppState::get_journal(path)
get_journal(map, path) ==
    IF path # None
    THEN IF \E k \in 1 .. Len(map) : map[k] = unwrap(path)
         THEN Some(unwrap(path)) ELSE None
    ELSE IF map = << >> THEN None ELSE Some(map[1])

Unlocked == [readers |-> {}, writer |-> None]

\* RwLock::read() is granted.
can_read(lock) == lock.writer = None

\* RwLock::write() is granted.
can_write(lock) == lock.writer = None /\ lock.readers = {}

NoRequest == [pc |-> "idle", journal |-> None, target_journal |-> None,
              source |-> None, target |-> None]

\* Everything but the hub's journal locks and replay requests.
replay_rest == << cursor, loop_vars, cur_last, tally, jr_last, events, verdict,
                  setup_vars, frames, ipc_vars, alert_vars, uuid, auth_vars >>

InitReplay ==
    /\ Idle
    /\ InitLoop("None", JournalSize)
    /\ journals \in JournalMaps
    /\ rwlock = [q \in Paths |-> Unlocked]
    /\ replay = [r \in Requests |-> NoRequest]
    /\ NoSubmit /\ NoIpc /\ NoAlerts /\ NoAuth /\ uuid = 0

\* POST /api/replay arrives.
ApiReplay(r, journal_param, target_param) ==
    /\ replay[r].pc = "idle"
    /\ replay' = [replay EXCEPT ![r] = [pc |-> "start", journal |-> journal_param,
                                        target_journal |-> target_param,
                                        source |-> None, target |-> None]]
    /\ UNCHANGED << journals, rwlock, replay_rest >>

\* state.get_journal(params.journal) and state.get_journal(params.target_journal),
\* each answered with NOT_FOUND when it returns None.
ReplayGetJournals(r) ==
    /\ replay[r].pc = "start"
    /\ LET source_primary == get_journal(journals, replay[r].journal)
           target_primary == get_journal(journals, replay[r].target_journal)
       IN  replay' = [replay EXCEPT
                         ![r].source = source_primary,
                         ![r].target = IF source_primary = None THEN None
                                       ELSE target_primary,
                         ![r].pc = IF source_primary = None \/ target_primary = None
                                   THEN "not_found" ELSE "read"]
    /\ UNCHANGED << journals, rwlock, replay_rest >>

\* source_primary.journal.read().await
ReplayRead(r) ==
    /\ replay[r].pc = "read"
    /\ can_read(rwlock[unwrap(replay[r].source)])
    /\ rwlock' = [rwlock EXCEPT ![unwrap(replay[r].source)].readers = @ \cup {r}]
    /\ replay' = [replay EXCEPT ![r].pc = "write"]
    /\ UNCHANGED << journals, replay_rest >>

\* target_primary.journal.write().await
ReplayWrite(r) ==
    /\ replay[r].pc = "write"
    /\ can_write(rwlock[unwrap(replay[r].target)])
    /\ rwlock' = [rwlock EXCEPT ![unwrap(replay[r].target)].writer = Some(r)]
    /\ replay' = [replay EXCEPT ![r].pc = "copy"]
    /\ UNCHANGED << journals, replay_rest >>

\* The slots are copied, the response is made and the guards are dropped.
ReplayRespond(r) ==
    /\ replay[r].pc = "copy"
    /\ rwlock' = [q \in Paths |->
                    [readers |-> rwlock[q].readers \ {r},
                     writer |-> IF rwlock[q].writer = Some(r) THEN None
                                ELSE rwlock[q].writer]]
    /\ replay' = [replay EXCEPT ![r].pc = "done"]
    /\ UNCHANGED << journals, replay_rest >>

\* What the task of request r does next.
ReplayStep(r) ==
    \/ ReplayGetJournals(r)
    \/ ReplayRead(r)
    \/ ReplayWrite(r)
    \/ ReplayRespond(r)

NextReplay ==
    \/ \E r \in Requests, journal_param \in JournalParams,
          target_param \in JournalParams : ApiReplay(r, journal_param, target_param)
    \/ \E r \in Requests : ReplayStep(r)

SpecReplay == InitReplay /\ [][NextReplay]_vars

\* The runtime polls every task that can go on.
SpecReplayFair == SpecReplay /\ \A r \in Requests : WF_vars(ReplayStep(r))

(***************************************************************************)
(* The hub's alert engine.  An incident is its id, its status and who      *)
(* acknowledged it; the texts, the timestamps and the timeline, which is   *)
(* only appended to, are left out.  Ids are fresh uuids, numbered here in  *)
(* the order they are drawn.  Each call holds the write lock on incidents  *)
(* from its first statement to its return, so the calls are atomic.        *)
(***************************************************************************)
MaxIncidents == 3

HistoryCapacity == 2

IncidentIds == 1 .. MaxIncidents

Ok(x) == [ok |-> TRUE, value |-> x]

Err(x) == [ok |-> FALSE, value |-> x]

\* incidents.iter().position(|i| i.id == incident_id), counted from 1;
\* 0 for None.
position(list, incident_id) ==
    IF \E k \in 1 .. Len(list) : list[k].id = incident_id
    THEN CHOOSE k \in 1 .. Len(list) :
            /\ list[k].id = incident_id
            /\ \A m \in 1 .. (k - 1) : list[m].id # incident_id
    ELSE 0

\* Vec::remove(idx)
remove(list, k) == SubSeq(list, 1, k - 1) \o SubSeq(list, k + 1, Len(list))

\* create_incident: the incident pushed.
create_incident(active, id) ==
    Append(active, [id |-> id, status |-> "Open", acknowledged_by |-> None])

\* acknowledge_incident(incident_id, actor): the list after the call and
\* what the call returned.
acknowledge_incident(active, incident_id, actor) ==
    LET k == position(active, incident_id)
    IN  IF k = 0
        THEN [incidents |-> active, ret |-> Err("not found")]
        ELSE LET incident == [active[k] EXCEPT !.status = "Acknowledged",
                                               !.acknowledged_by = Some(actor)]
             IN  [incidents |-> [active EXCEPT ![k] = incident],
                  ret |-> Ok(incident)]

\* resolve_incident with the incident left in the active list.
resolve_incident_kept(active, history, incident_id) ==
    LET k == position(active, incident_id)
    IN  IF k = 0
        THEN [incidents |-> active, incident_history |-> history,
              ret |-> Err("not found")]
        ELSE LET resolved == [active[k] EXCEPT !.status = "Resolved"]
                 room == IF Len(history) >= HistoryCapacity THEN Tail(history)
                         ELSE history
             IN  [incidents |-> [active EXCEPT ![k] = resolved],
                  incident_history |-> Append(room, resolved),
                  ret |-> Ok(resolved)]

\* resolve_incident(incident_id, actor): both lists after the call and what
\* the call returned.
resolve_incident(active, history, incident_id) ==
    LET k == position(active, incident_id)
    IN  IF k = 0
        THEN [incidents |-> active, incident_history |-> history,
              ret |-> Err("not found")]
        ELSE LET resolved == [active[k] EXCEPT !.status = "Resolved"]
                 room == IF Len(history) >= HistoryCapacity THEN Tail(history)
                         ELSE history
             IN  [incidents |-> remove(active, k),
                  incident_history |-> Append(room, resolved),
                  ret |-> Ok(resolved)]

\* Everything but the alert engine.
alert_rest == << cursor, loop_vars, cur_last, tally, jr_last, events, verdict,
                 setup_vars, frames, ipc_vars, replay_vars, auth_vars >>

InitAlerts ==
    /\ Idle
    /\ InitLoop("None", JournalSize)
    /\ NoAlerts
    /\ uuid = 0
    /\ NoSubmit /\ NoIpc /\ NoReplay /\ NoAuth

CreateIncident ==
    /\ uuid < MaxIncidents
    /\ uuid' = uuid + 1
    /\ incidents' = create_incident(incidents, uuid + 1)
    /\ inc_last' = Some([op |-> "create", id |-> uuid + 1,
                         ret |-> Ok(incidents'[Len(incidents')])])
    /\ UNCHANGED << incident_history, alert_rest >>

AcknowledgeIncident(incident_id) ==
    /\ LET call == acknowledge_incident(incidents, incident_id, "admin")
       IN  /\ incidents' = call.incidents
           /\ inc_last' = Some([op |-> "acknowledge", id |-> incident_id,
                                ret |-> call.ret])
    /\ UNCHANGED << incident_history, uuid, alert_rest >>

ResolveIncident(incident_id) ==
    /\ LET call == resolve_incident(incidents, incident_history, incident_id)
       IN  /\ incidents' = call.incidents
           /\ incident_history' = call.incident_history
           /\ inc_last' = Some([op |-> "resolve", id |-> incident_id,
                                ret |-> call.ret])
    /\ UNCHANGED << uuid, alert_rest >>

NextAlerts ==
    \/ CreateIncident
    \/ \E incident_id \in IncidentIds : AcknowledgeIncident(incident_id)
    \/ \E incident_id \in IncidentIds : ResolveIncident(incident_id)

SpecAlerts == InitAlerts /\ [][NextAlerts]_vars

(***************************************************************************)
(* The hub's auth layer and middleware.  At startup the hub creates a root *)
(* key with all three scopes.  A raw key and a key id are two fresh uuids, *)
(* numbered here in the order they are drawn.  SHA-256 is taken to have no *)
(* collisions: the hash of a token is the token under a tag.  A path is    *)
(* the sequence of its characters.  An Authorization header is the text    *)
(* before its eighth character and the text from it on; a header that is   *)
(* missing or not a string is None.  Timestamps (created_at,               *)
(* last_used_at) and labels are left out.                                  *)
(***************************************************************************)
MaxKeys == 2

\* str::starts_with
starts_with(text, prefix) ==
    /\ Len(text) >= Len(prefix)
    /\ SubSeq(text, 1, Len(prefix)) = prefix

Path_api == << "/", "a", "p", "i" >>

Path_api_status == << "/", "a", "p", "i", "/", "s", "t", "a", "t", "u", "s" >>

Path_api_auth == << "/", "a", "p", "i", "/", "a", "u", "t", "h" >>

Path_ws == << "/", "w", "s" >>

RequestPaths ==
    {Path_api_status,
     << "/", "a", "p", "i", "/", "a", "u", "t", "h", "/", "k", "e", "y", "s" >>,
     << "/", "a", "p", "i", "/", "r", "e", "p", "l", "a", "y" >>,
     Path_ws}

Methods == {"GET", "HEAD", "POST", "OPTIONS"}

\* The uuids that become raw keys and the uuids that become key ids.
RawKeys == {2 * n - 1 : n \in 1 .. MaxKeys}

KeyIds == {2 * n : n \in 1 .. MaxKeys}

\* The tokens a client may send: the raw keys, and one that is not a key.
Tokens == {0} \cup RawKeys

Headers ==
    {None, Some([scheme |-> "Basic ", token |-> 1])}
    \cup {Some([scheme |-> "Bearer ", token |-> token]) : token \in Tokens}

ScopeSets == {{"Read"}, {"Write"}, {"Admin"}, {"Read", "Write"}}

sha256_hex(input) == << "sha256", input >>

constant_time_eq(a, b) == a = b

\* The index of the first key the token validates against; 0 for none.
find_key(keys, hash) ==
    IF \E k \in 1 .. Len(keys) :
          constant_time_eq(keys[k].key_hash, hash) /\ ~keys[k].revoked
    THEN CHOOSE k \in 1 .. Len(keys) :
            /\ constant_time_eq(keys[k].key_hash, hash) /\ ~keys[k].revoked
            /\ \A m \in 1 .. (k - 1) :
                  ~(constant_time_eq(keys[m].key_hash, hash) /\ ~keys[m].revoked)
    ELSE 0

\* validate_token with the revoked flag not looked at.
validate_token_revoked(keys, token) ==
    LET hash == sha256_hex(token)
        found == {k \in 1 .. Len(keys) : constant_time_eq(keys[k].key_hash, hash)}
    IN  IF found = {}
        THEN [api_keys |-> keys, ret |-> None]
        ELSE LET k == CHOOSE k \in found : \A m \in found : k <= m
             IN  [api_keys |-> keys, ret |-> Some([keys[k] EXCEPT !.key = None])]

\* AuthLayer::validate_token(token): the keys after the call and the key
\* returned.
validate_token(keys, token) ==
    LET k == find_key(keys, sha256_hex(token))
    IN  IF k = 0
        THEN [api_keys |-> keys, ret |-> None]
        ELSE [api_keys |-> keys, ret |-> Some([keys[k] EXCEPT !.key = None])]

\* AuthLayer::has_scope(key, required)
has_scope(key, required) ==
    IF "Admin" \in key.scopes THEN TRUE ELSE required \in key.scopes

\* required_scope(path, method)
required_scope(path, method) ==
    IF ~starts_with(path, Path_api) THEN None
    ELSE IF path = Path_api_status THEN None
    ELSE IF starts_with(path, Path_api_auth) THEN Some("Admin")
    ELSE IF method \in {"GET", "HEAD"} THEN Some("Read")
    ELSE Some("Write")

\* auth_middleware(state, req, next): the keys after the call and whether
\* the request went on to next.run or was answered with a status.
auth_middleware(keys, path, method, auth_header) ==
    IF \/ path = Path_api_status
       \/ starts_with(path, Path_ws)
       \/ ~starts_with(path, Path_api)
       \/ method = "OPTIONS"
    THEN [api_keys |-> keys, ret |-> "next"]
    ELSE IF auth_header # None /\ unwrap(auth_header).scheme = "Bearer "
    THEN LET valid == validate_token(keys, unwrap(auth_header).token)
             scope == required_scope(path, method)
         IN  IF valid.ret # None
             THEN IF scope # None /\ ~has_scope(unwrap(valid.ret), unwrap(scope))
                  THEN [api_keys |-> valid.api_keys, ret |-> "FORBIDDEN"]
                  ELSE [api_keys |-> valid.api_keys, ret |-> "next"]
             ELSE [api_keys |-> valid.api_keys, ret |-> "UNAUTHORIZED"]
    ELSE [api_keys |-> keys, ret |-> "UNAUTHORIZED"]

\* AuthLayer::create_key(req): the key pushed, made of two fresh uuids.
create_key(keys, raw_key, id, scopes) ==
    Append(keys, [id |-> id, key |-> Some(raw_key), key_hash |-> sha256_hex(raw_key),
                  scopes |-> scopes, revoked |-> FALSE])

\* AuthLayer::revoke_key(key_id): the keys after the call and whether it
\* returned Ok.
revoke_key(keys, key_id) ==
    IF \E k \in 1 .. Len(keys) : keys[k].id = key_id
    THEN LET k == CHOOSE k \in 1 .. Len(keys) :
                     /\ keys[k].id = key_id
                     /\ \A m \in 1 .. (k - 1) : keys[m].id # key_id
         IN  [api_keys |-> [keys EXCEPT ![k].revoked = TRUE], ok |-> TRUE]
    ELSE [api_keys |-> keys, ok |-> FALSE]

\* Everything but the auth layer.
auth_rest == << cursor, loop_vars, cur_last, tally, jr_last, events, verdict,
                setup_vars, frames, ipc_vars, replay_vars, alert_vars >>

\* AuthLayer::new, then the root key.
InitAuth ==
    /\ Idle
    /\ InitLoop("None", JournalSize)
    /\ api_keys = create_key(<< >>, 1, 2, {"Admin", "Read", "Write"})
    /\ uuid = 2
    /\ auth_last = None
    /\ NoSubmit /\ NoIpc /\ NoReplay /\ NoAlerts

CreateKey(scopes) ==
    /\ Len(api_keys) < MaxKeys
    /\ api_keys' = create_key(api_keys, uuid + 1, uuid + 2, scopes)
    /\ uuid' = uuid + 2
    /\ auth_last' = Some([op |-> "create_key", id |-> uuid + 2])
    /\ UNCHANGED auth_rest

RevokeKey(key_id) ==
    /\ LET call == revoke_key(api_keys, key_id)
       IN  /\ api_keys' = call.api_keys
           /\ auth_last' = Some([op |-> "revoke_key", id |-> key_id, ok |-> call.ok])
    /\ UNCHANGED << uuid, auth_rest >>

HandleRequest(path, method, auth_header) ==
    /\ LET call == auth_middleware(api_keys, path, method, auth_header)
       IN  /\ api_keys' = call.api_keys
           /\ auth_last' = Some([op |-> "request", path |-> path, method |-> method,
                                 auth_header |-> auth_header, ret |-> call.ret])
    /\ UNCHANGED << uuid, auth_rest >>

NextAuth ==
    \/ \E scopes \in ScopeSets : CreateKey(scopes)
    \/ \E key_id \in KeyIds \cup {1} : RevokeKey(key_id)
    \/ \E path \in RequestPaths, method \in Methods, auth_header \in Headers :
          HandleRequest(path, method, auth_header)

SpecAuth == InitAuth /\ [][NextAuth]_vars

(***************************************************************************)
(* What the properties below read off a state of the loop.                 *)
(***************************************************************************)
\* The step is one iteration of the processing loop.
ProcessStep == pc = "process" /\ idx' = idx + 1

CurTag == completed_slots[idx + 1].user_data

CurResult == completed_slots[idx + 1].result

CurOffset == in_flight_offsets[CurTag]

\* Bytes [offset, offset + 32) of the blob region: the header as the loop reads it.
CurHeader == ptr_read(Bytes(blob, CurOffset, CurOffset + size_bytes))

\* Bytes [offset + 32, offset + bytes) of the blob region.
CurPayload == Bytes(blob, CurOffset + size_bytes, CurOffset + CurResult)

TooShort == CurResult >= 0 /\ CurResult < size_bytes

FailsChecksum == CurResult >= size_bytes /\ crc32(CurPayload) # CurHeader.checksum

PassesChecks == CurResult >= size_bytes /\ crc32(CurPayload) = CurHeader.checksum

RingFull(c) == (c.head + 1) % c.capacity = c.tail

\* The step commits an atom: it claims a slot of the index ring.
Commits == ProcessStep /\ cursor'.head # cursor.head

\* The step pushes exactly one receive, for the tag of the completion.
Resubmits ==
    /\ Len(sq') = Len(sq) + 1
    /\ sq'[Len(sq')].user_data = CurTag
    /\ SubSeq(sq', 1, Len(sq)) = sq

\* The slots tail, tail+1, ..., head-1 (mod capacity), in slot order.
LiveLen(c) == (c.head - c.tail + c.capacity) % c.capacity

LiveSlot(c, k) == (c.tail + k) % c.capacity

(***************************************************************************)
(* Properties of the sequencer loop (Spec).                                *)
(***************************************************************************)
\* C1: in every reachable state of the loop, whatever mix of kernel errors,
\* short packets, bad checksums, valid packets and valid packets hitting a
\* full ring has been processed, the atoms in slots tail .. head-1 have
\* strictly increasing lamport_ts in slot order.
C1_SlotOrderIsLamportOrder ==
    \A k \in 0 .. (LiveLen(cursor) - 2) :
        read_event_at(index_ring, LiveSlot(cursor, k)).lamport_ts
            < read_event_at(index_ring, LiveSlot(cursor, k + 1)).lamport_ts

\* Two atoms are live and a completion was dropped between or around them.
C1_Witness == LiveLen(cursor) >= 2 /\ dropped >= 1

\* C2: from a fresh process, while every completion has been a valid packet
\* and the ring has not filled, the k-th committed packet is stored at slot
\* k-1 with lamport_ts = k (the first at slot 0 with lamport_ts = 1).
C2_KthCommitStampedK ==
    dropped = 0 =>
        \A k \in 1 .. EVENTS_PROCESSED :
            read_event_at(index_ring, k - 1).lamport_ts = k

\* C3: every atom the loop has committed has lamport_ts > 0, so no committed
\* slot equals the all-zero pattern the readers skip.
C3_CommittedStampPositive ==
    \A k \in 0 .. (LiveLen(cursor) - 1) :
        /\ read_event_at(index_ring, LiveSlot(cursor, k)).lamport_ts > 0
        /\ ~is_empty_event(read_event_at(index_ring, LiveSlot(cursor, k)))

\* C4 as claimed: processing a completion whose packet is dropped (too short,
\* checksum mismatch, or ring full) changes none of cursor, index ring,
\* events_processed, bytes_processed, the Lamport counter and the IPC output;
\* its only effect is the resubmission.
C4_DropChangesNothing ==
    [][(ProcessStep /\ (TooShort \/ FailsChecksum \/ (PassesChecks /\ RingFull(cursor))))
        => /\ UNCHANGED << cursor, index_ring, EVENTS_PROCESSED, BYTES_PROCESSED,
                           LAMPORT_COUNTER, ipc_out >>
           /\ Resubmits]_vars

\* C4 as amended: a drop for a short packet or a checksum mismatch changes none
\* of cursor, index ring, events_processed, bytes_processed, the Lamport
\* counter and the IPC output; a drop on a full ring changes none of cursor,
\* index ring, events_processed, bytes_processed and the IPC output, and has
\* advanced the Lamport counter by one; either way the receive is resubmitted.
C4_DropKeepsAllButTheStamp ==
    [][(ProcessStep /\ (TooShort \/ FailsChecksum \/ (PassesChecks /\ RingFull(cursor))))
        => /\ UNCHANGED << cursor, index_ring, EVENTS_PROCESSED, BYTES_PROCESSED,
                           ipc_out >>
           /\ LAMPORT_COUNTER' =
                 IF PassesChecks THEN LAMPORT_COUNTER + 1 ELSE LAMPORT_COUNTER
           /\ Resubmits]_vars

\* A valid packet was dropped on a full ring after the counter passed the commits.
C4_Witness == last.kind = "full" /\ LAMPORT_COUNTER > EVENTS_PROCESSED

\* C5: when the cursor is full and a packet passing the size and checksum
\* checks completes, there is no commit: no index slot is written, head and
\* tail stay, events_processed and bytes_processed do not advance.
C5_DropOnFull ==
    [][(ProcessStep /\ PassesChecks /\ RingFull(cursor))
        => UNCHANGED << index_ring, cursor, EVENTS_PROCESSED, BYTES_PROCESSED >>]_vars

\* A valid packet met a ring holding capacity - 1 atoms.
C5_Witness ==
    /\ last.kind = "full"
    /\ last.result >= size_bytes
    /\ EVENTS_PROCESSED = cursor.capacity - 1

\* C6: an atom is committed only if the checksum computed over the payload
\* bytes [offset+32, offset+bytes) equals the checksum field of the header;
\* a packet whose header checksum differs is not committed and leaves
\* events_processed unchanged.
C6_CommitOnlyOnChecksumMatch ==
    [][ProcessStep
        => /\ (cursor' # cursor \/ index_ring' # index_ring
                  \/ EVENTS_PROCESSED' # EVENTS_PROCESSED)
              => PassesChecks
           /\ FailsChecksum
              => UNCHANGED << cursor, index_ring, EVENTS_PROCESSED >>]_vars

\* A packet with a wrong checksum was processed after an atom was committed.
C6_Witness == last.kind = "checksum" /\ EVENTS_PROCESSED >= 1

\* C7: a committed atom takes node_id, stream_id and checksum from the
\* header, payload_offset from the blob offset recorded for the tag,
\* lamport_ts from the Lamport counter, and flags = 0; the header's
\* lamport_ts, payload_offset and flags are not copied.
C7_StoredAtomFields ==
    [][Commits
        => read_event_at(index_ring', cursor.head) =
              [lamport_ts |-> LAMPORT_COUNTER,
               node_id |-> CurHeader.node_id,
               stream_id |-> CurHeader.stream_id,
               flags |-> 0,
               payload_offset |-> in_flight_offsets[CurTag],
               checksum |-> CurHeader.checksum]]_vars

\* A packet whose header set lamport_ts, flags and payload_offset was committed
\* with other values in those fields.
C7_Witness ==
    /\ last.kind = "commit"
    /\ last.packet = Some(GoodDatagram)
    /\ LET stored == read_event_at(index_ring, unwrap(last.slot))
           sent == ptr_read(SubSeq(GoodDatagram, 1, size_bytes))
       IN  /\ stored.lamport_ts # sent.lamport_ts
           /\ stored.flags # sent.flags
           /\ stored.payload_offset # sent.payload_offset
           /\ stored.node_id = sent.node_id

\* C8: a committed atom's payload_offset lies in the blob region
\* (payload_offset + received bytes <= blob capacity) and, at the instant of
\* commit, the blob bytes starting at payload_offset equal the payload bytes
\* of the packet (the bytes after its 32-byte header).
C8_OffsetPointsAtPayload ==
    [][Commits
        => LET payload_offset == read_event_at(index_ring', cursor.head).payload_offset
               payload == SubSeq(unwrap(packet[CurTag]), size_bytes + 1,
                                 Len(unwrap(packet[CurTag])))
           IN  /\ payload_offset + CurResult <= BlobLen
               /\ Bytes(blob, payload_offset, payload_offset + Len(payload))
                     = payload]_vars

(***************************************************************************)
(* Properties of the cursor on its own (SpecCursor).                       *)
(***************************************************************************)
\* C9: advance_head returns Some only when (head + 1) mod capacity # tail
\* beforehand, and a successful advance_head never leaves head = tail.
C9_HeadNeverReachesTail ==
    (cur_last.op = "advance_head" /\ cur_last.ret # None) =>
        /\ (cur_last.before.head + 1) % cur_last.before.capacity
              # cur_last.before.tail
        /\ cursor.head # cursor.tail

\* A successful advance_head wrapped head to slot 0.
C9_Witness ==
    /\ cur_last.op = "advance_head"
    /\ cur_last.ret # None
    /\ cur_last.before.head = cursor.capacity - 1
    /\ cursor.head = 0

\* C10: after any sequence of advance_head / advance_tail calls
\* 0 <= head < capacity, 0 <= tail < capacity, and capacity has not changed.
C10_PositionsInRange ==
    cursor # Panic =>
        /\ 0 <= cursor.head /\ cursor.head < cursor.capacity
        /\ 0 <= cursor.tail /\ cursor.tail < cursor.capacity
        /\ cur_last.op # "none" => cursor.capacity = cur_last.before.capacity

\* Both positions have wrapped around the end of the ring.
C10_Witness ==
    /\ cur_last.op = "advance_tail"
    /\ cur_last.ret = Some(cursor.capacity - 1)
    /\ cursor.tail = 0
    /\ cursor.head < cursor.capacity - 1

\* C11: after any sequence of advance_head / advance_tail calls, len() equals
\* (head - tail + capacity) mod capacity and lies in 0 .. capacity - 1.
C11_LenIsModularDistance ==
    cursor # Panic =>
        /\ cur_last.len
              = (cursor.head - cursor.tail + cursor.capacity) % cursor.capacity
        /\ 0 <= cur_last.len
        /\ cur_last.len <= cursor.capacity - 1

\* len() was taken with head wrapped behind tail and the ring full.
C11_Witness ==
    /\ cur_last.op = "advance_head"
    /\ cursor.head < cursor.tail
    /\ cur_last.len = cursor.capacity - 1

\* C12: advance_head returns None exactly when (head + 1) mod capacity = tail
\* beforehand, and then leaves head and tail as they were; otherwise it
\* returns the previous head, sets head to (head + 1) mod capacity and leaves
\* tail as it was.
C12_AdvanceHeadContract ==
    cur_last.op = "advance_head" =>
        LET b == cur_last.before
        IN  /\ cur_last.ret = None <=> (b.head + 1) % b.capacity = b.tail
            /\ cur_last.ret = None => cursor.head = b.head /\ cursor.tail = b.tail
            /\ cur_last.ret # None =>
                  /\ cur_last.ret = Some(b.head)
                  /\ cursor.head = (b.head + 1) % b.capacity
                  /\ cursor.tail = b.tail

\* advance_head returned None on a ring whose head had wrapped behind its tail.
C12_Witness ==
    /\ cur_last.op = "advance_head"
    /\ cur_last.ret = None
    /\ cursor.head < cursor.tail

\* C13: advance_tail returns None exactly when head = tail beforehand, and
\* then leaves head and tail as they were; otherwise it returns the previous
\* tail, sets tail to (tail + 1) mod capacity and leaves head as it was.
C13_AdvanceTailContract ==
    cur_last.op = "advance_tail" =>
        LET b == cur_last.before
        IN  /\ cur_last.ret = None <=> b.head = b.tail
            /\ cur_last.ret = None => cursor.head = b.head /\ cursor.tail = b.tail
            /\ cur_last.ret # None =>
                  /\ cur_last.ret = Some(b.tail)
                  /\ cursor.tail = (b.tail + 1) % b.capacity
                  /\ cursor.head = b.head

\* advance_tail returned None on a ring that had been filled and drained.
C13_Witness ==
    /\ cur_last.op = "advance_tail"
    /\ cur_last.ret = None
    /\ cursor.head # 0
    /\ tally.held = 0

\* C14: a cursor of capacity N has exactly N - 1 usable slots: of the
\* advance_head calls made in a row from an empty cursor the first N - 1
\* return Some and the N-th (and any after it) returns None; and at no time
\* are more than N - 1 slots claimed and not released.
C14_UsableSlots ==
    cursor # Panic =>
        /\ tally.held <= cursor.capacity - 1
        /\ (cur_last.op = "advance_head" /\ tally.streak # None) =>
              (cur_last.ret # None <=> unwrap(tally.streak) <= cursor.capacity - 1)

\* The N-th advance_head in a row from a cursor that was drained to empty
\* returned None with N - 1 slots held.
C14_Witness ==
    /\ cur_last.op = "advance_head"
    /\ cur_last.ret = None
    /\ tally.streak = Some(cursor.capacity)
    /\ tally.held = cursor.capacity - 1
    /\ cursor.tail # 0

\* C15: the i-th successful advance_head (counting from 0) returns slot
\* i mod capacity and the j-th successful advance_tail returns slot
\* j mod capacity, a slot claimed before; and an advance_head that follows the
\* release of one slot of a full ring returns the slot after the one claimed
\* last and leaves the ring full again.
C15_CyclicFifo ==
    [][/\ (cur_last'.op = "advance_head" /\ cur_last'.ret # None)
            => cur_last'.ret = Some(tally.claims)
       /\ (cur_last'.op = "advance_tail" /\ cur_last'.ret # None)
            => cur_last'.ret = Some(tally.releases) /\ tally.held >= 1
       /\ (/\ cur_last.op = "advance_tail"
           /\ cur_last.ret # None
           /\ RingFull(cur_last.before)
           /\ cur_last'.op = "advance_head")
            => /\ cur_last'.ret
                    = Some((unwrap(tally.last_claimed) + 1) % cursor.capacity)
               /\ RingFull(cursor')]_vars

\* A slot of a full ring was released and the next claim wrapped head to 0.
C15_Witness ==
    /\ cur_last.op = "advance_head"
    /\ cur_last.refill
    /\ cur_last.ret = Some(cursor.capacity - 1)
    /\ cursor.head = 0
    /\ cursor.tail = 1

(***************************************************************************)
(* Properties of the atom order (SpecOrder).                               *)
(***************************************************************************)
\* a's key precedes b's: by lamport_ts, then by node_id, then by stream_id.
KeyBefore(a, b) ==
    \/ a.lamport_ts < b.lamport_ts
    \/ a.lamport_ts = b.lamport_ts /\ a.node_id < b.node_id
    \/ a.lamport_ts = b.lamport_ts /\ a.node_id = b.node_id
          /\ a.stream_id < b.stream_id

SameKey(a, b) ==
    a.lamport_ts = b.lamport_ts /\ a.node_id = b.node_id /\ a.stream_id = b.stream_id

\* C16: the comparison of atoms is a total order on (lamport_ts, node_id,
\* stream_id): a <= a; a <= b and b <= a imply equal key triples; a <= b and
\* b <= c imply a <= c; a <= b or b <= a; and cmp is Less exactly when the
\* first differing one of lamport_ts, node_id, stream_id (in this order) is
\* smaller, Greater exactly when it is larger.
C16_TotalOrderOnKey ==
    verdict # None =>
        LET v == unwrap(verdict)
        IN  /\ \A i \in 1 .. 3 : v.le[i][i]
            /\ \A i, j \in 1 .. 3 :
                  (v.le[i][j] /\ v.le[j][i]) => SameKey(events[i], events[j])
            /\ \A i, j, k \in 1 .. 3 : (v.le[i][j] /\ v.le[j][k]) => v.le[i][k]
            /\ \A i, j \in 1 .. 3 : v.le[i][j] \/ v.le[j][i]
            /\ \A i, j \in 1 .. 3 :
                  /\ v.cmp[i][j] = "Less" <=> KeyBefore(events[i], events[j])
                  /\ v.cmp[i][j] = "Greater" <=> KeyBefore(events[j], events[i])

\* Three atoms in a chain: the first two differ in stream_id only, the last
\* two differ in node_id with the lamport_ts equal.
C16_Witness ==
    /\ verdict # None
    /\ events[1].lamport_ts = events[2].lamport_ts
    /\ events[1].node_id = events[2].node_id
    /\ events[1].stream_id < events[2].stream_id
    /\ events[2].lamport_ts = events[3].lamport_ts
    /\ events[2].node_id < events[3].node_id
    /\ events[2].stream_id > events[3].stream_id
    /\ unwrap(verdict).cmp[1][2] = "Less"
    /\ unwrap(verdict).cmp[2][3] = "Less"
    /\ unwrap(verdict).le[1][3]

\* C17: two atoms with the same (lamport_ts, node_id, stream_id) compare Equal
\* and are ==, whatever their payload_offset, checksum and flags.
C17_EqualOnKeyAlone ==
    verdict # None =>
        \A i, j \in 1 .. 3 :
            SameKey(events[i], events[j])
                => /\ unwrap(verdict).cmp[i][j] = "Equal"
                   /\ unwrap(verdict).eq[i][j]

\* Two atoms with the same key and different payload_offset, checksum and
\* flags were found equal.
C17_Witness ==
    /\ verdict # None
    /\ SameKey(events[1], events[2])
    /\ events[1].payload_offset # events[2].payload_offset
    /\ events[1].checksum # events[2].checksum
    /\ events[1].flags # events[2].flags
    /\ unwrap(verdict).eq[1][2]

\* C18: after a list of atoms is sorted by the atom order, lamport_ts is
\* non-decreasing along the list.
C18_SortedStampsNonDecreasing ==
    (verdict # None /\ unwrap(verdict).sorted # None) =>
        LET sorted == unwrap(unwrap(verdict).sorted)
        IN  /\ Len(sorted) = Len(events)
            /\ \A i \in 1 .. (Len(sorted) - 1) :
                  sorted[i].lamport_ts <= sorted[i + 1].lamport_ts

\* A list given in decreasing lamport_ts order, with the larger node_id on the
\* smaller lamport_ts, was sorted.
C18_Witness ==
    /\ verdict # None
    /\ unwrap(verdict).sorted # None
    /\ events[1].lamport_ts > events[3].lamport_ts
    /\ events[1].node_id < events[3].node_id
    /\ unwrap(unwrap(verdict).sorted)[1] = events[3]

(***************************************************************************)
(* Properties of the journal on its own (SpecJournal).                     *)
(***************************************************************************)
\* C19: read_event_at(s) made right after write_event_at(s, a), s <
\* INDEX_RING_CAPACITY, returns an atom equal to a in every field, and the
\* write changes no byte of any other slot.
C19_WriteThenRead ==
    [][/\ jr_last'.op = "write"
            => /\ read_event_at(index_ring', jr_last'.slot) = jr_last'.event
               /\ DOMAIN index_ring' = DOMAIN index_ring
               /\ \A o \in DOMAIN index_ring :
                     (o < jr_last'.slot * size_bytes
                         \/ o >= (jr_last'.slot + 1) * size_bytes)
                        => index_ring'[o] = index_ring[o]
       /\ (jr_last'.op = "read" /\ jr_last'.wrote # None)
            => jr_last'.event = unwrap(jr_last'.wrote)]_vars

\* The atom with multi-byte fields was written to the last slot over another
\* atom and read back, the first slot holding a different atom.
C19_Witness ==
    /\ jr_last.op = "read"
    /\ jr_last.slot = INDEX_RING_CAPACITY - 1
    /\ jr_last.wrote = Some(WideEvent)
    /\ jr_last.event = WideEvent
    /\ read_event_at(index_ring, 0) = ClientHeader(crc32(<< 1 >>))

(***************************************************************************)
(* The loop's counters (Spec).                                             *)
(***************************************************************************)
\* C20: events_processed and bytes_processed start at 0; a step that commits
\* an atom adds 1 to events_processed and the full received size of the
\* committed packet (32-byte header plus payload) to bytes_processed; no other
\* step changes either.  So events_processed is the number of atoms committed
\* and bytes_processed the sum of the sizes of exactly those packets.
C20_CountersCountCommits ==
    /\ EVENTS_PROCESSED = 0
    /\ BYTES_PROCESSED = 0
    /\ [][IF Commits
          THEN /\ EVENTS_PROCESSED' = EVENTS_PROCESSED + 1
               /\ BYTES_PROCESSED'
                     = BYTES_PROCESSED + Len(unwrap(packet[CurTag]))
               /\ Len(unwrap(packet[CurTag])) >= size_bytes
          ELSE UNCHANGED << EVENTS_PROCESSED, BYTES_PROCESSED >>]_vars

\* Two packets of different sizes were committed around a dropped one.
C20_Witness ==
    /\ last.kind = "commit"
    /\ dropped >= 1
    /\ EVENTS_PROCESSED = 2
    /\ BYTES_PROCESSED = size_bytes + MAX_PACKET_SIZE

(***************************************************************************)
(* The wake messages (Spec).                                               *)
(***************************************************************************)
\* C21: with the IPC server running, a step broadcasts a wake exactly when it
\* commits a packet; the wake is appended after the wakes of the earlier
\* commits, it carries the slot just committed, and the state that shows it
\* shows the atom written and both counters advanced.  No other step and no
\* step without an IPC server broadcasts anything.
C21_WakeIffCommit ==
    [][IF Commits /\ ipc = "Some"
       THEN /\ Len(ipc_out') = Len(ipc_out) + 1
            /\ SubSeq(ipc_out', 1, Len(ipc_out)) = ipc_out
            /\ FromLE(ipc_out'[Len(ipc_out')]) = cursor.head
            /\ index_ring' # index_ring
            /\ read_event_at(index_ring', cursor.head).lamport_ts = LAMPORT_COUNTER
            /\ EVENTS_PROCESSED' = EVENTS_PROCESSED + 1
            /\ BYTES_PROCESSED' = BYTES_PROCESSED + CurResult
       ELSE ipc_out' = ipc_out]_vars

\* The second commit woke the observers with slot 1, after a dropped packet.
C21_Witness ==
    /\ ipc = "Some"
    /\ last.kind = "commit"
    /\ dropped >= 1
    /\ Len(ipc_out) = 2
    /\ FromLE(ipc_out[2]) = 1

\* C22: every message put on the IPC channel is 4 bytes long, and an observer
\* reading the stream in 4-byte little-endian frames decodes the committed
\* slot indices 0, 1, ..., one frame per commit.
C22_FourByteFrames ==
    ipc = "Some" =>
        /\ \A m \in 1 .. Len(ipc_out) : Len(ipc_out[m]) = 4
        /\ read_frames(Stream(ipc_out)) = [k \in 1 .. EVENTS_PROCESSED |-> k - 1]

\* The counters the loop keeps.
Counters == << EVENTS_PROCESSED, BYTES_PROCESSED, LAMPORT_COUNTER >>

\* C23: a step that drops a packet (too short, bad checksum, or ring full)
\* increments a counter of the loop by exactly one.
C23_DropsAreCounted ==
    [][(ProcessStep /\ (TooShort \/ FailsChecksum \/ (PassesChecks /\ RingFull(cursor))))
        => \E i \in 1 .. Len(Counters) : Counters'[i] = Counters[i] + 1]_vars

\* C24: when a push finds the submission queue full -- in the initial
\* submission or in a resubmission -- run returns the error; and once run
\* has returned, no completion is processed and no atom is committed.
C24_QueueFullIsFatal ==
    [][/\ (pc = "start" /\ sq_depth < PIPELINE_DEPTH) => pc' = "error"
       /\ (ProcessStep /\ Len(sq) >= sq_depth) => pc' = "error"
       /\ pc = "error"
            => UNCHANGED << pc, idx, completed_slots, cursor, index_ring,
                            EVENTS_PROCESSED, BYTES_PROCESSED, ipc_out, sq >>]_vars

\* run returned the error from the initial submission, the queue full.
C24_Witness ==
    /\ pc = "error"
    /\ sq_depth < PIPELINE_DEPTH
    /\ Len(sq) = sq_depth
    /\ EVENTS_PROCESSED = 0

(***************************************************************************)
(* Construction (SpecJournal, SpecCursor).                                 *)
(***************************************************************************)
\* C25: Journal::open produces no handle for a size smaller than the index
\* ring.
C25_UndersizedJournalRejected ==
    journal # None => unwrap(journal).size >= INDEX_RING_SIZE

\* C26: Cursor::new(capacity) panics exactly when capacity < 2; otherwise the
\* new cursor has head = tail = 0 and the capacity asked for, is_empty() is
\* true, is_full() is false and len() is 0.
C26_NewChecksCapacity ==
    /\ cur_new.capacity < 2 <=> cursor = Panic
    /\ (cursor # Panic /\ cur_last.op = "none")
          => /\ cursor.head = 0
             /\ cursor.tail = 0
             /\ cursor.capacity = cur_new.capacity
    /\ cursor # Panic
          => cur_new.is_empty /\ ~cur_new.is_full /\ cur_new.len = 0

\* Cursor::new(1) panicked.
C26_Witness == cursor = Panic /\ cur_new.capacity = 1

(***************************************************************************)
(* The receive pipeline (Spec).                                            *)
(***************************************************************************)
\* The receives of a tag that the kernel holds or has completed and the loop
\* has not drained.
Outstanding(t) ==
    (IF kernel[t] # None THEN 1 ELSE 0)
    + Cardinality({k \in 1 .. Len(cq) : cq[k].user_data = t})

\* C27: while the loop waits for a completion every tag has exactly one
\* receive outstanding; every processed completion -- kernel error, dropped
\* or committed packet -- is followed in the same step by exactly one
\* resubmission with its tag; and the drain takes every completion queued.
C27_PipelineStaysFull ==
    /\ [](pc = "wait" => \A t \in Tags : Outstanding(t) = 1)
    /\ [][/\ ProcessStep => Resubmits
          /\ (pc = "wait" /\ pc' = "process") => completed_slots' = cq]_vars

\* After a kernel error was processed and its receive resubmitted, the loop
\* waits with a completion queued for every tag.
C27_Witness ==
    /\ pc = "wait"
    /\ last.kind = "error"
    /\ Len(cq) = PIPELINE_DEPTH

\* The number of receive submissions made so far.
Submitted ==
    IF pc = "start" THEN 0 ELSE PIPELINE_DEPTH + EVENTS_PROCESSED + dropped

\* C28: the n-th receive submission (n = 0, 1, ...) is assigned blob offset
\* (n mod BlobSlices) * MAX_PACKET_SIZE; the offset is 0 in place of
\* next_blob_offset exactly when next_blob_offset + MAX_PACKET_SIZE exceeds
\* the blob capacity; and the offset recorded for the tag is the one the
\* kernel is handed for it.
C28_OffsetsRoll ==
    [][/\ (pc = "start" /\ pc' = "submit")
            => \A i \in 1 .. PIPELINE_DEPTH :
                  /\ sq'[i].buf = ((i - 1) % BlobSlices) * MAX_PACKET_SIZE
                  /\ in_flight_offsets'[sq'[i].user_data] = sq'[i].buf
       /\ (ProcessStep /\ pc' # "error")
            => /\ sq'[Len(sq')].buf = (Submitted % BlobSlices) * MAX_PACKET_SIZE
               /\ in_flight_offsets'[CurTag] = sq'[Len(sq')].buf
               /\ sq'[Len(sq')].buf =
                     IF next_blob_offset + MAX_PACKET_SIZE > BlobLen THEN 0
                     ELSE next_blob_offset
               /\ next_blob_offset' = sq'[Len(sq')].buf + MAX_PACKET_SIZE
       /\ (pc = "submit" /\ pc' = "wait")
            => \A k \in 1 .. Len(sq) :
                  kernel'[sq[k].user_data] = Some(in_flight_offsets[sq[k].user_data])]_vars

\* A resubmission was assigned offset 0 again, the blob's slices used up.
C28_Witness ==
    /\ Submitted > BlobSlices
    /\ Submitted % BlobSlices = 1
    /\ sq # << >>
    /\ sq[Len(sq)].buf = 0
    /\ next_blob_offset = MAX_PACKET_SIZE

\* C29: with journal_size >= INDEX_RING_SIZE + MAX_PACKET_SIZE * PIPELINE_DEPTH
\* the blob slices of the receives the kernel holds at the same time are
\* pairwise disjoint for distinct tags.
C29_InFlightSlicesDisjoint ==
    unwrap(journal).size >= INDEX_RING_SIZE + MAX_PACKET_SIZE * PIPELINE_DEPTH =>
        \A t1, t2 \in Tags :
            (t1 # t2 /\ kernel[t1] # None /\ kernel[t2] # None)
                => \/ unwrap(kernel[t1]) + MAX_PACKET_SIZE <= unwrap(kernel[t2])
                   \/ unwrap(kernel[t2]) + MAX_PACKET_SIZE <= unwrap(kernel[t1])

\* C30: the index ring changes only in a step that commits, and then only in
\* the bytes of the slot advance_head returned in that step (the head before
\* the step); that slot was not live, and every live atom stays as it was.
C30_WriteOnlyClaimedSlot ==
    [][/\ Commits <=> index_ring' # index_ring
       /\ index_ring' # index_ring
            => /\ \A o \in DOMAIN index_ring :
                     index_ring'[o] # index_ring[o]
                        => o \div size_bytes = cursor.head
               /\ \A k \in 0 .. (LiveLen(cursor) - 1) :
                     /\ LiveSlot(cursor, k) # cursor.head
                     /\ read_event_at(index_ring', LiveSlot(cursor, k))
                           = read_event_at(index_ring, LiveSlot(cursor, k))]_vars

\* Slot 1 was written with slot 0 live and holding another atom.
C30_Witness ==
    /\ last.kind = "commit"
    /\ last.slot = Some(1)
    /\ LiveLen(cursor) = 2
    /\ read_event_at(index_ring, 0).node_id # read_event_at(index_ring, 1).node_id

(***************************************************************************)
(* Kernel errors and the tail (Spec).                                      *)
(***************************************************************************)
\* C31: processing a completion with result < 0 changes none of cursor, index
\* ring, events_processed, bytes_processed, the Lamport counter and the IPC
\* output; it resubmits the tag with the next blob offset of the rolling
\* sequence, and run goes on.
C31_KernelErrorIsIgnored ==
    [][(ProcessStep /\ CurResult < 0)
        => /\ UNCHANGED << cursor, index_ring, EVENTS_PROCESSED, BYTES_PROCESSED,
                           LAMPORT_COUNTER, ipc_out >>
           /\ Resubmits
           /\ in_flight_offsets'[CurTag] = sq'[Len(sq')].buf
           /\ sq'[Len(sq')].buf = (Submitted % BlobSlices) * MAX_PACKET_SIZE
           /\ pc' \in {"process", "submit"}]_vars

\* A kernel error on tag 1 was processed after a commit, and run goes on.
C31_Witness ==
    /\ last.kind = "error"
    /\ last.tag = 1
    /\ EVENTS_PROCESSED >= 1
    /\ pc \in {"process", "submit"}

\* C32: no step of the loop changes the cursor's tail; and once the ring
\* holds capacity - 1 atoms, no later step changes the cursor, the index
\* ring or events_processed: every later valid packet is dropped.
C32_TailNeverMoves ==
    [][/\ cursor'.tail = cursor.tail
       /\ LiveLen(cursor) = cursor.capacity - 1
            => UNCHANGED << cursor, index_ring, EVENTS_PROCESSED >>]_vars

\* With head capacity - 1 slots ahead of the tail at 0, a valid packet was
\* dropped.
C32_Witness ==
    /\ last.kind = "full"
    /\ cursor.tail = 0
    /\ cursor.head = cursor.capacity - 1
    /\ dropped >= 1

(***************************************************************************)
(* submit_recv on a short blob (SpecSubmit).                               *)
(***************************************************************************)
\* C33: for every journal of size >= INDEX_RING_SIZE a call of submit_recv
\* calls itself at most once before it assigns an offset and pushes the
\* receive.
C33_RecursesAtMostOnce == frames <= 1

(***************************************************************************)
(* The IpcServer's clients (SpecIpc).                                      *)
(***************************************************************************)
\* The streams of the clients list.
Listed == {clients[k] : k \in 1 .. Len(clients)}

\* C34: while no broadcast is under way the list holds exactly the streams
\* pushed by the accept thread no write to which has failed, and each of
\* them has been sent, whole and in order, every message broadcast since it
\* was pushed; a stream dropped from the list is sent nothing more; a stream
\* is written to only by a broadcast that holds the mutex and has it in the
\* list, and is pushed only by the accept thread holding the mutex.
C34_BroadcastKeepsTheLiving ==
    /\ [](mutex # "broadcast" =>
            /\ \A c \in Streams :
                  c \in Listed <=> /\ socket[c].state = "open"
                                   /\ incoming # Some(c)
                                   /\ ~socket[c].failed
            /\ \A c \in Listed :
                  socket[c].rcvd = SubSeq(ipc_out, socket[c].joined + 1, Len(ipc_out)))
    /\ [][\A c \in Streams :
            /\ socket[c].state = "dropped" => socket'[c] = socket[c]
            /\ socket'[c].rcvd # socket[c].rcvd
                  => mutex = "broadcast" /\ mutex' = "broadcast" /\ c \in Listed
            /\ (c \in Listed' /\ c \notin Listed)
                  => mutex = "accept" /\ incoming = Some(c)]_vars

\* A broadcast has dropped a stream that had taken a part of the message,
\* and kept a stream pushed after the first message, which got the second
\* message only.
C34_Witness ==
    /\ mutex = "free"
    /\ Len(ipc_out) = 2
    /\ \E c \in Streams :
          /\ socket[c].state = "dropped"
          /\ socket[c].rcvd # << >>
          /\ socket[c].rcvd[Len(socket[c].rcvd)] \notin
                {ipc_out[k] : k \in 1 .. Len(ipc_out)}
    /\ \E c \in Listed :
          /\ socket[c].joined = 1
          /\ socket[c].rcvd = << ipc_out[2] >>

(***************************************************************************)
(* The hub's replay handler (SpecReplayFair).                              *)
(***************************************************************************)
\* C37: every api_replay request that has arrived is answered, whatever its
\* source and target resolve to.
C37_ReplayAlwaysResponds ==
    \A r \in Requests :
       replay[r].pc = "start" ~> replay[r].pc \in {"done", "not_found"}

(***************************************************************************)
(* The hub's alert engine (SpecAlerts).                                    *)
(***************************************************************************)
ActiveIds == {incidents[k].id : k \in 1 .. Len(incidents)}

HistoryIds == {incident_history[k].id : k \in 1 .. Len(incident_history)}

\* The call made in this step, when the step is a call on incident id.
CallOn(op, id) ==
    /\ inc_last' # None
    /\ unwrap(inc_last').op = op
    /\ unwrap(inc_last').id = id

\* C38: no incident id is in the active list and in the history at once, and
\* the history holds resolved incidents only; a resolve_incident call on an
\* active id takes the incident out of the active list and appends it to
\* the history with status Resolved; an acknowledge_incident or
\* resolve_incident call on an id that was created and is no more active
\* returns the error and changes neither list.
C38_ResolvedIsHistory ==
    /\ [](/\ ActiveIds \cap HistoryIds = {}
          /\ \A k \in 1 .. Len(incident_history) :
                incident_history[k].status = "Resolved")
    /\ [][\A id \in IncidentIds :
            /\ (CallOn("resolve", id) /\ id \in ActiveIds)
                  => /\ id \notin ActiveIds'
                     /\ incident_history'[Len(incident_history')].id = id
                     /\ incident_history'[Len(incident_history')].status = "Resolved"
                     /\ unwrap(inc_last').ret.ok
            /\ ((CallOn("resolve", id) \/ CallOn("acknowledge", id))
                    /\ id <= uuid /\ id \notin ActiveIds)
                  => /\ ~unwrap(inc_last').ret.ok
                     /\ UNCHANGED << incidents, incident_history >>]_vars

\* An incident was acknowledged and resolved, and an acknowledge_incident
\* call on it has then returned the error, while another incident is active.
C38_Witness ==
    /\ inc_last # None
    /\ unwrap(inc_last).op = "acknowledge"
    /\ ~unwrap(inc_last).ret.ok
    /\ unwrap(inc_last).id \in HistoryIds
    /\ \E k \in 1 .. Len(incident_history) :
          incident_history[k].acknowledged_by # None
    /\ incidents # << >>

(***************************************************************************)
(* The hub's auth middleware (SpecAuth).                                   *)
(***************************************************************************)
\* The step is the middleware's handling of a request.
RequestStep == auth_last' # None /\ unwrap(auth_last').op = "request"

\* The request of the step is for a non-public /api path.
Guarded ==
    /\ starts_with(unwrap(auth_last').path, Path_api)
    /\ unwrap(auth_last').path # Path_api_status
    /\ unwrap(auth_last').method # "OPTIONS"

\* The scope the request of the step needs.
Needed ==
    IF starts_with(unwrap(auth_last').path, Path_api_auth) THEN "Admin"
    ELSE IF unwrap(auth_last').method \in {"GET", "HEAD"} THEN "Read"
    ELSE "Write"

\* The request of the step bears raw key k of the keys before the step.
Bears(k) ==
    /\ unwrap(auth_last').auth_header # None
    /\ unwrap(unwrap(auth_last').auth_header).scheme = "Bearer "
    /\ Some(unwrap(unwrap(auth_last').auth_header).token) = api_keys[k].key

\* C39: a request for a non-public /api path goes on to the handler only if
\* it bears, as a bearer token, the raw key of a key that is not revoked and
\* holds the scope the request needs or Admin; a revoked key stays revoked,
\* and no request bearing a revoked key goes on.
C39_OnlyScopedKeysPass ==
    [][/\ (RequestStep /\ Guarded /\ unwrap(auth_last').ret = "next")
            => \E k \in 1 .. Len(api_keys) :
                  /\ Bears(k)
                  /\ ~api_keys[k].revoked
                  /\ (Needed \in api_keys[k].scopes \/ "Admin" \in api_keys[k].scopes)
       /\ \A k \in 1 .. Len(api_keys) :
             api_keys[k].revoked
                => /\ api_keys'[k].revoked
                   /\ (RequestStep /\ Guarded /\ Bears(k))
                         => unwrap(auth_last').ret = "UNAUTHORIZED"]_vars

\* A key without Admin was revoked, and a request bearing it for a path its
\* scopes cover has been answered UNAUTHORIZED.
C39_Witness ==
    /\ auth_last # None
    /\ unwrap(auth_last).op = "request"
    /\ unwrap(auth_last).ret = "UNAUTHORIZED"
    /\ unwrap(auth_last).method = "GET"
    /\ starts_with(unwrap(auth_last).path, Path_api)
    /\ \E k \in 1 .. Len(api_keys) :
          /\ api_keys[k].revoked
          /\ api_keys[k].scopes = {"Read"}
          /\ unwrap(auth_last).auth_header =
                Some([scheme |-> "Bearer ", token |-> unwrap(api_keys[k].key)])

(***************************************************************************)
(* More on the cursor on its own (SpecCursor).                             *)
(***************************************************************************)
\* C35: for a cursor of capacity >= 2, is_empty() and is_full() are never
\* both true: not on the new cursor and not after any call.
C35_NotEmptyAndFull ==
    cursor # Panic =>
        /\ ~(cur_new.is_empty /\ cur_new.is_full)
        /\ ~(cur_last.empty /\ cur_last.full)

\* The smallest ring is full, and not empty, after one claim.
C35_Witness ==
    /\ cursor # Panic
    /\ cursor.capacity = 2
    /\ cur_last.op = "advance_head"
    /\ cur_last.full
    /\ ~cur_last.empty

\* C36: after any sequence of calls on a fresh cursor, len() equals the number
\* of advance_head calls that returned Some minus the number of advance_tail
\* calls that returned Some.
C36_LenCountsClaimsLessReleases ==
    cursor # Panic => cur_last.len = tally.held

\* A release left slots held with head wrapped behind tail.
C36_Witness ==
    /\ cursor # Panic
    /\ cur_last.op = "advance_tail"
    /\ cur_last.ret # None
    /\ cursor.head < cursor.tail
    /\ tally.held >= 1

====
